---- MODULE Spec2Model ----
(***************************************************************************)
(* SiteTrace backend: the ingestion pipeline (Celery task process_content   *)
(* driving the orchestrator process_ingest_event) and the approval          *)
(* workflow (confirm / reject / send / sign endpoints) over the shared      *)
(* tables ingest_events, change_events, change_event_sources,               *)
(* state_transitions, notifications, change_orders, change_order_items.     *)
(* Every database call of a handler is one atomic step: the handlers hold   *)
(* no lock and open no transaction, so calls of different workers and       *)
(* requests interleave at that grain.                                       *)
(***************************************************************************)
EXTENDS Integers, Sequences, FiniteSets, TLC

\* ---------------------------------------------------------------- bounds
\* ingest events brought in by the poller
NumIngest == 1
\* deliveries of process_content messages (first deliveries and redeliveries)
MaxTasks == 2
\* proposals surviving deduplication in one orchestrator run
MaxProposals == 2
\* rows of change_events
MaxCE == 2
\* HTTP requests of one behaviour
MaxReq == 3
\* HTTP requests being handled at the same time
MaxInFlight == 2
\* items in one classifier answer
MaxItems == 1
\* (proposal, metadata) pairs in one batch handed to _deduplicate_proposals
MaxBatch == 3
\* rows of change_events stored before check_and_handle_duplicates is called
MaxStored == 2
\* calls of check_and_handle_duplicates
MaxCalls == 1
\* poll cycles of one inbox
MaxPolls == 2

\* ------------------------------------------------------ program constants
max_retries == 3
\* str(e)[:500]
ExcerptMax == 500
\* settings.confidence_threshold, in hundredths
confidence_threshold == 70
\* change.get("confidence", 0.5), in hundredths
DefaultConfidence == 50
\* _deduplicate_proposals(similarity_threshold=0.92), in hundredths
similarity_threshold == 92
\* cosine similarities are counted in hundred-thousandths
DUPLICATE_THRESHOLD == 92000
POSSIBLE_DUP_THRESHOLD == 80000

None == "none"
Projects == {"p1"}
\* contractor c1 owns every project; c2 is another authenticated contractor
Contractors == {"c1", "c2"}
Owner(p) == "c1"
\* classifier confidences, in hundredths, on both sides of the threshold
Confidences == {69, 70}
\* a token jwt.decode refuses (expired or forged); it has no notifications row
BadToken == 0

VARIABLES
  ingest_events,         \* table ingest_events, id = index
  change_events,         \* table change_events, id = index
  change_event_sources,  \* table change_event_sources: set of links
  state_transitions,     \* table state_transitions, append-only
  notifications,         \* table notifications, rows carrying an action token; token = index
  change_orders,         \* table change_orders, id = index
  change_order_items,    \* table change_order_items: set of rows
  tasks,                 \* process_content deliveries, each with its position
  requests,              \* HTTP requests, each with its position
  triggered,             \* change events send_change_proposed was called for, in order
  dedup,                 \* a call of _deduplicate_proposals: its batch and what it returned
  resolver,              \* calls of check_and_handle_duplicates, each with its position
  polls,                 \* poll cycles of the email poller, each with its position
  vision,                \* analyze_images on the images of one ingest event: the agent calls made
  cosine,                \* a call of cosine_similarity: its vectors and what it returned
  limiter                \* RateLimitMiddleware: the clock, the Redis sorted sets, the requests seen

db == <<ingest_events, change_events, change_event_sources, state_transitions,
        notifications, change_orders, change_order_items>>
\* the units modelled apart from the pipeline and the workflow
further == <<vision, cosine, limiter>>
apart == <<dedup, resolver, polls, further>>
vars == <<ingest_events, change_events, change_event_sources, state_transitions,
          notifications, change_orders, change_order_items, tasks, requests, triggered,
          dedup, resolver, polls, vision, cosine, limiter>>

\* no call of _deduplicate_proposals yet: ran counts the applications made,
\* once is what the first returned, twice what the second returned
NoCall == [batch |-> <<>>, ran |-> 0, once |-> <<>>, twice |-> <<>>]
\* no image to analyze: images are the classifier's and the extractor's answer
\* for each image, log the agent calls made so far
NoImages == [images |-> <<>>, log |-> <<>>]
\* no call of cosine_similarity
NoPair == [vec_a |-> <<>>, vec_b |-> <<>>, ran |-> FALSE, raised |-> "none",
           sim |-> 0, verdict |-> "none"]
\* no request has come to the middleware: now is the clock, sets maps a Redis
\* key to its sorted set (the scores; a member is its score written out),
\* ttl maps it to the time it expires, seen lists the requests dispatched,
\* since counts them and read counts the times the clock moved on
NoTraffic == [now |-> 0, sets |-> <<>>, ttl |-> <<>>, seen |-> <<>>, since |-> 0,
              read |-> 0]

Init ==
  /\ ingest_events = <<>>
  /\ change_events = <<>>
  /\ change_event_sources = {}
  /\ state_transitions = <<>>
  /\ notifications = <<>>
  /\ change_orders = <<>>
  /\ change_order_items = {}
  /\ tasks = <<>>
  /\ requests = <<>>
  /\ triggered = <<>>
  /\ dedup = NoCall
  /\ resolver = <<>>
  /\ polls = <<>>
  /\ vision = NoImages
  /\ cosine = NoPair
  /\ limiter = NoTraffic

\* ------------------------------------------------------------ helpers
Batches == UNION {[1..n -> Confidences] : n \in 0..MaxProposals}

\* A routing that sends the boundary value to manual_review.
StatusForStrict(confidence) ==
  IF confidence > confidence_threshold THEN "proposed" ELSE "manual_review"

StatusFor(confidence) ==
  IF confidence >= confidence_threshold THEN "proposed" ELSE "manual_review"

Transition(etype, id, from, to, actor) ==
  [entity_type |-> etype, entity_id |-> id, from_status |-> from,
   to_status |-> to, actor_type |-> actor]

NewTask(ie) ==
  [ie |-> ie, retries |-> 0, pc |-> "queued", batch |-> <<>>, idx |-> 0,
   ce |-> 0, created |-> <<>>, results |-> <<>>, order |-> <<>>]

\* A task that runs no more: only how it ended is kept.
Ended(task, how) == [NewTask(task.ie) EXCEPT !.retries = task.retries, !.pc = how]

\* A handler that gives up one attempt later.
OnExceptionLate(task) ==
  IF task.retries > max_retries
  THEN [task EXCEPT !.pc = "mark_failed"]
  ELSE [NewTask(task.ie) EXCEPT !.retries = task.retries + 1]

\* The except branch of process_content, up to its decision: with retries left
\* the exception is re-raised and Celery enqueues the task again with
\* retries + 1; otherwise the handler goes on to mark the event failed.
OnException(task) ==
  IF task.retries >= max_retries
  THEN [task EXCEPT !.pc = "mark_failed"]
  ELSE [NewTask(task.ie) EXCEPT !.retries = task.retries + 1]

\* ------------------------------------------------------------ ingestion
\* _poll_single_integration: insert the ingest event (routed to a project or
\* to none) and enqueue process_content for it.
Ingest(p) ==
  /\ Len(ingest_events) < NumIngest
  /\ Len(tasks) < MaxTasks
  /\ ingest_events' = Append(ingest_events,
        [project_id |-> p, processing_status |-> "pending", error_message |-> 0])
  /\ tasks' = Append(tasks, NewTask(Len(ingest_events) + 1))
  /\ UNCHANGED <<change_events, change_event_sources, state_transitions,
                 notifications, change_orders, change_order_items, requests, triggered, apart>>

\* ------------------------------------------------- worker: process_content
Running == {"fetch", "insert_ce", "insert_src", "insert_tr", "mark_completed",
            "notify", "mark_failed", "fallback"}

SetTask(t, rec) == tasks' = [tasks EXCEPT ![t] = rec]

\* process_content, first statement: mark the ingest event as processing.
\* fail: the database call raises.
StartProcessing(t, fail) ==
  /\ t \in DOMAIN tasks
  /\ tasks[t].pc = "queued"
  /\ IF fail
     THEN /\ SetTask(t, OnException(tasks[t]))
          /\ UNCHANGED ingest_events
     ELSE /\ ingest_events' = [ingest_events EXCEPT
                                 ![tasks[t].ie].processing_status = "processing"]
          /\ SetTask(t, [tasks[t] EXCEPT !.pc = "fetch"])
  /\ UNCHANGED <<change_events, change_event_sources, state_transitions,
                 notifications, change_orders, change_order_items, requests, triggered, apart>>

\* process_ingest_event up to the persist loop: fetch the ingest event and its
\* project, run the three phases, deduplicate. batch is the deduplicated list,
\* each proposal given by its confidence. fail: the fetch raises.
FetchAndAnalyze(t, fail, batch) ==
  /\ t \in DOMAIN tasks
  /\ tasks[t].pc = "fetch"
  /\ IF fail
     THEN SetTask(t, OnException(tasks[t]))
     ELSE SetTask(t, [tasks[t] EXCEPT
                        !.batch = batch, !.idx = 1, !.created = <<>>,
                        !.pc = IF batch = <<>> THEN "mark_completed" ELSE "insert_ce"])
  /\ UNCHANGED <<db, requests, triggered, apart>>

\* The persist loop, first insert: the change_events row.
InsertChangeEvent(t, fail) ==
  /\ t \in DOMAIN tasks
  /\ tasks[t].pc = "insert_ce"
  /\ IF fail
     THEN /\ SetTask(t, OnException(tasks[t]))
          /\ UNCHANGED change_events
     ELSE /\ Len(change_events) < MaxCE
          /\ LET me == tasks[t]
                 ie == ingest_events[me.ie]
             IN change_events' = Append(change_events,
                  [project_id |-> ie.project_id,
                   status |-> StatusFor(me.batch[me.idx]),
                   confidence_score |-> me.batch[me.idx],
                   confirmed_at |-> FALSE, rejected_at |-> FALSE, edited |-> FALSE,
                   made_by |-> "ai", src_ie |-> me.ie])
          /\ SetTask(t, [tasks[t] EXCEPT !.ce = Len(change_events) + 1,
                                         !.pc = "insert_src"])
  /\ UNCHANGED <<ingest_events, change_event_sources, state_transitions,
                 notifications, change_orders, change_order_items, requests, triggered, apart>>

\* The persist loop, second insert: the change_event_sources link.
InsertSource(t, fail) ==
  /\ t \in DOMAIN tasks
  /\ tasks[t].pc = "insert_src"
  /\ IF fail
     THEN /\ SetTask(t, OnException(tasks[t]))
          /\ UNCHANGED change_event_sources
     ELSE /\ change_event_sources' = change_event_sources \cup
               {[change_event_id |-> tasks[t].ce, ingest_event_id |-> tasks[t].ie]}
          /\ SetTask(t, [tasks[t] EXCEPT !.pc = "insert_tr"])
  /\ UNCHANGED <<ingest_events, change_events, state_transitions,
                 notifications, change_orders, change_order_items, requests, triggered, apart>>

\* The persist loop, third insert: the state_transitions row (None -> status,
\* actor ai); then created_events.append(ce) and the next proposal.
InsertTransition(t, fail) ==
  /\ t \in DOMAIN tasks
  /\ tasks[t].pc = "insert_tr"
  /\ IF fail
     THEN /\ SetTask(t, OnException(tasks[t]))
          /\ UNCHANGED state_transitions
     ELSE /\ LET me == tasks[t]
             IN /\ state_transitions' = Append(state_transitions,
                      Transition("change_event", me.ce, None,
                                 StatusFor(me.batch[me.idx]), "ai"))
                /\ SetTask(t, [me EXCEPT
                      !.created = Append(me.created, me.ce),
                      !.idx = IF me.idx < Len(me.batch) THEN me.idx + 1 ELSE 1,
                      !.pc = IF me.idx < Len(me.batch) THEN "insert_ce"
                             ELSE "mark_completed"])
  /\ UNCHANGED <<ingest_events, change_events, change_event_sources,
                 notifications, change_orders, change_order_items, requests, triggered, apart>>

\* process_content after the orchestrator returned: mark the event completed.
MarkCompleted(t, fail) ==
  /\ t \in DOMAIN tasks
  /\ tasks[t].pc = "mark_completed"
  /\ IF fail
     THEN /\ SetTask(t, OnException(tasks[t]))
          /\ UNCHANGED ingest_events
     ELSE /\ ingest_events' = [ingest_events EXCEPT
                                 ![tasks[t].ie].processing_status = "completed"]
          /\ SetTask(t, IF tasks[t].created = <<>> THEN Ended(tasks[t], "done")
                         ELSE [tasks[t] EXCEPT !.idx = 1, !.pc = "notify"])
  /\ UNCHANGED <<change_events, change_event_sources, state_transitions,
                 notifications, change_orders, change_order_items, requests, triggered, apart>>

TokenRow(ce, co, action) ==
  [change_event_id |-> ce, change_order_id |-> co, action |-> action,
   used_at |-> FALSE, marks |-> 0]

\* A notification loop without its try/except: a failing send_change_proposed
\* leaves the task through the except branch.
NotifyRaising(t, stored) ==
  /\ t \in DOMAIN tasks
  /\ tasks[t].pc = "notify"
  /\ LET me == tasks[t]
         ce == me.created[me.idx]
         row == change_events[ce]
         called == StatusFor(row.confidence_score) = "proposed"
         sent == IF ~called THEN 0 ELSE IF row.project_id = None THEN 0 ELSE stored
         rows == SubSeq(<<TokenRow(ce, 0, "confirm"), TokenRow(ce, 0, "reject")>>,
                        1, sent)
     IN /\ notifications' = notifications \o rows
        /\ triggered' = IF called THEN Append(triggered, ce) ELSE triggered
        /\ SetTask(t, IF called /\ sent < 2 THEN OnException(me)
                       ELSE IF me.idx < Len(me.created)
                       THEN [me EXCEPT !.idx = me.idx + 1]
                       ELSE Ended(me, "done"))
  /\ UNCHANGED <<ingest_events, change_events, change_event_sources,
                 state_transitions, change_orders, change_order_items, requests, apart>>

\* The notification loop, one created event per step. For an event persisted as
\* proposed, send_change_proposed stores the confirm and the reject token rows;
\* stored is how many of the two rows it wrote before raising (2: none raised).
\* Its first query joins the project, so an event without project raises at
\* once. The exception is caught and logged by the loop.
Notify(t, stored) ==
  /\ t \in DOMAIN tasks
  /\ tasks[t].pc = "notify"
  /\ LET me == tasks[t]
         ce == me.created[me.idx]
         row == change_events[ce]
         sent == IF StatusFor(row.confidence_score) # "proposed" THEN 0
                 ELSE IF row.project_id = None THEN 0
                 ELSE stored
         rows == SubSeq(<<TokenRow(ce, 0, "confirm"), TokenRow(ce, 0, "reject")>>,
                        1, sent)
     IN /\ notifications' = notifications \o rows
        /\ triggered' = IF StatusFor(row.confidence_score) = "proposed"
                        THEN Append(triggered, ce) ELSE triggered
        /\ SetTask(t, IF me.idx < Len(me.created)
                       THEN [me EXCEPT !.idx = me.idx + 1]
                       ELSE Ended(me, "done"))
  /\ UNCHANGED <<ingest_events, change_events, change_event_sources,
                 state_transitions, change_orders, change_order_items, requests, apart>>

\* str(e) of the exception handled, by its length; error_message holds the
\* length of what is stored (0: nothing stored).
ErrorLengths == {499, 500, 501}
Excerpt(len) == IF len > ExcerptMax THEN ExcerptMax ELSE len

\* The except branch with retries exhausted: mark the ingest event failed.
\* fail: the call raises inside the handler, and the task ends there.
MarkFailed(t, fail) ==
  /\ t \in DOMAIN tasks
  /\ tasks[t].pc = "mark_failed"
  /\ IF fail
     THEN /\ SetTask(t, Ended(tasks[t], "dead"))
          /\ UNCHANGED ingest_events
     ELSE /\ \E len \in ErrorLengths :
               ingest_events' = [ingest_events EXCEPT
                                   ![tasks[t].ie].processing_status = "failed",
                                   ![tasks[t].ie].error_message = Excerpt(len)]
          /\ SetTask(t, [tasks[t] EXCEPT !.pc = "fallback"])
  /\ UNCHANGED <<change_events, change_event_sources, state_transitions,
                 notifications, change_orders, change_order_items, requests, triggered, apart>>

\* The except branch, the rest: read the ingest event and, if it has a project,
\* insert one manual_review change event (nothing else is written).
Fallback(t, fail) ==
  /\ t \in DOMAIN tasks
  /\ tasks[t].pc = "fallback"
  /\ IF fail
     THEN /\ SetTask(t, Ended(tasks[t], "dead"))
          /\ UNCHANGED change_events
     ELSE /\ LET me == tasks[t]
                 ie == ingest_events[me.ie]
             IN IF ie.project_id # None
                THEN /\ Len(change_events) < MaxCE
                     /\ change_events' = Append(change_events,
                          [project_id |-> ie.project_id,
                           status |-> "manual_review",
                           confidence_score |-> 0,
                           confirmed_at |-> FALSE, rejected_at |-> FALSE,
                           edited |-> FALSE,
                           made_by |-> "fallback", src_ie |-> me.ie])
                ELSE UNCHANGED change_events
          /\ SetTask(t, Ended(tasks[t], "gave_up"))
  /\ UNCHANGED <<ingest_events, change_event_sources, state_transitions,
                 notifications, change_orders, change_order_items, requests, triggered, apart>>

\* The worker process dies in the middle of an execution: nothing more of it
\* runs, and its message was not acknowledged (task_acks_late).
Crash(t) ==
  /\ t \in DOMAIN tasks
  /\ tasks[t].pc \in Running
  /\ SetTask(t, Ended(tasks[t], "lost"))
  /\ UNCHANGED <<db, requests, triggered, apart>>

\* At-least-once delivery: the broker delivers an unacknowledged message again,
\* to a worker that starts the task afresh with the same retry count, whether
\* the first execution died or is still running.
Redeliver(t) ==
  /\ t \in DOMAIN tasks
  /\ tasks[t].pc \in Running \cup {"lost"}
  /\ Len(tasks) < MaxTasks
  /\ tasks' = Append(tasks, [NewTask(tasks[t].ie) EXCEPT !.retries = tasks[t].retries])
  /\ UNCHANGED <<db, requests, triggered, apart>>

\* The pipeline with a failing database and a dying worker: every database
\* call of the worker may raise, and the worker may die at any point.
NextPipeline ==
  \/ \E p \in Projects \cup {None} : Ingest(p)
  \/ \E t \in DOMAIN tasks, fail \in BOOLEAN : StartProcessing(t, fail)
  \/ \E t \in DOMAIN tasks, fail \in BOOLEAN, batch \in Batches :
        FetchAndAnalyze(t, fail, batch)
  \/ \E t \in DOMAIN tasks, fail \in BOOLEAN : InsertChangeEvent(t, fail)
  \/ \E t \in DOMAIN tasks, fail \in BOOLEAN : InsertSource(t, fail)
  \/ \E t \in DOMAIN tasks, fail \in BOOLEAN : InsertTransition(t, fail)
  \/ \E t \in DOMAIN tasks, fail \in BOOLEAN : MarkCompleted(t, fail)
  \/ \E t \in DOMAIN tasks, stored \in 0..2 : Notify(t, stored)
  \/ \E t \in DOMAIN tasks, fail \in BOOLEAN : MarkFailed(t, fail)
  \/ \E t \in DOMAIN tasks, fail \in BOOLEAN : Fallback(t, fail)
  \/ \E t \in DOMAIN tasks : Crash(t)

SpecPipeline == Init /\ [][NextPipeline]_vars

\* The pipeline with a failing orchestrator run only (the fetch or a phase's
\* service is down): the database writes themselves succeed.
NextExhaust ==
  \/ \E p \in Projects \cup {None} : Ingest(p)
  \/ \E t \in DOMAIN tasks : StartProcessing(t, FALSE)
  \/ \E t \in DOMAIN tasks, fail \in BOOLEAN, batch \in Batches :
        FetchAndAnalyze(t, fail, batch)
  \/ \E t \in DOMAIN tasks : InsertChangeEvent(t, FALSE)
  \/ \E t \in DOMAIN tasks : InsertSource(t, FALSE)
  \/ \E t \in DOMAIN tasks : InsertTransition(t, FALSE)
  \/ \E t \in DOMAIN tasks : MarkCompleted(t, FALSE)
  \/ \E t \in DOMAIN tasks, stored \in 0..2 : Notify(t, stored)
  \/ \E t \in DOMAIN tasks : MarkFailed(t, FALSE)
  \/ \E t \in DOMAIN tasks : Fallback(t, FALSE)

SpecExhaust == Init /\ [][NextExhaust]_vars

\* At-least-once delivery over a working database: the worker may die, and
\* the broker may deliver an unacknowledged message again.
NextDelivery ==
  \/ \E p \in Projects \cup {None} : Ingest(p)
  \/ \E t \in DOMAIN tasks : StartProcessing(t, FALSE)
  \/ \E t \in DOMAIN tasks, batch \in Batches : FetchAndAnalyze(t, FALSE, batch)
  \/ \E t \in DOMAIN tasks : InsertChangeEvent(t, FALSE)
  \/ \E t \in DOMAIN tasks : InsertSource(t, FALSE)
  \/ \E t \in DOMAIN tasks : InsertTransition(t, FALSE)
  \/ \E t \in DOMAIN tasks : MarkCompleted(t, FALSE)
  \/ \E t \in DOMAIN tasks, stored \in 0..2 : Notify(t, stored)
  \/ \E t \in DOMAIN tasks : Crash(t)
  \/ \E t \in DOMAIN tasks : Redeliver(t)

SpecDelivery == Init /\ [][NextDelivery]_vars

\* ------------------------------------------------------- HTTP requests
TokenKinds == {"confirm", "reject", "sign"}

NewRequest(kind, who, target, token, first, arrived) ==
  [kind |-> kind, who |-> who, target |-> target, token |-> token, pc |-> first,
   seen |-> None, co |-> 0, num |-> 0, linked |-> <<>>, result |-> 0,
   arrived |-> arrived, verified |-> FALSE, wrote |-> FALSE, item |-> 0]

\* A request that was answered. Of one answered 200, 201 or 409 the input, the
\* answer and what it did (verified, wrote: bookkeeping) are kept; of one
\* refused otherwise, the endpoint and the answer.
Answer(req, code) ==
  IF code \in {200, 201, 409}
  THEN [req EXCEPT !.pc = "ended", !.result = code, !.seen = None, !.co = 0,
                   !.num = 0, !.linked = <<>>]
  ELSE [NewRequest(req.kind, None, 0, BadToken, "ended", None) EXCEPT !.result = code]

SetReq(r, rec) == requests' = [requests EXCEPT ![r] = rec]

At(r, kinds, pc) ==
  /\ r \in DOMAIN requests
  /\ requests[r].kind \in kinds
  /\ requests[r].pc = pc

StatusOf(table, id) == IF id \in DOMAIN table THEN table[id].status ELSE None

\* A request arrives. The token of a confirm, reject or sign request is the
\* refused one or one issued for the target (for whichever action).
Arrive(kind, who, target, token) ==
  /\ Len(requests) < MaxReq
  /\ Cardinality({r \in DOMAIN requests : requests[r].pc # "ended"}) < MaxInFlight
  /\ \/ /\ kind \in {"confirm", "reject"}
        /\ who = None
        /\ target \in DOMAIN change_events
        /\ token = BadToken \/ (token \in DOMAIN notifications
                                /\ notifications[token].change_event_id = target)
        /\ requests' = Append(requests, NewRequest(kind, who, target, token,
                                  "verify", StatusOf(change_events, target)))
     \/ /\ kind = "sign"
        /\ who = None
        /\ target \in DOMAIN change_orders
        /\ token = BadToken \/ (token \in DOMAIN notifications
                                /\ notifications[token].change_order_id = target)
        /\ requests' = Append(requests, NewRequest(kind, who, target, token,
                                  "verify", StatusOf(change_orders, target)))
     \/ /\ kind = "send"
        /\ who \in Contractors
        /\ target \in DOMAIN change_orders
        /\ token = BadToken
        /\ requests' = Append(requests, NewRequest(kind, who, target, token,
                                  "send_check", StatusOf(change_orders, target)))
     \/ /\ kind = "update"
        /\ who \in Contractors
        /\ target \in DOMAIN change_events
        /\ token = BadToken
        /\ requests' = Append(requests, NewRequest(kind, who, target, token,
                                  "edit_check", StatusOf(change_events, target)))
     \/ /\ kind = "manual"
        /\ who \in Contractors
        /\ target = 0
        /\ token = BadToken
        /\ requests' = Append(requests, NewRequest(kind, who, target, token,
                                  "manual_ingest", None))
  /\ UNCHANGED <<db, tasks, triggered, apart>>

\* verify_action_token: 410 for a token whose notifications row is marked
\* used, 401 for a token jwt.decode refuses, 0 for a token it accepts.
VerifyActionToken(token) ==
  IF token \in DOMAIN notifications /\ notifications[token].used_at THEN 410
  ELSE IF token \notin DOMAIN notifications THEN 401
  ELSE 0

\* The payload checks of the three token endpoints: the entity and the action.
PayloadMatches(token, kind, target) ==
  LET row == notifications[token]
  IN /\ row.action = kind
     /\ IF kind = "sign" THEN row.change_order_id = target
        ELSE row.change_event_id = target

\* confirm, reject and sign, first lines: verify the token and its payload.
Verify(r) ==
  /\ At(r, TokenKinds, "verify")
  /\ LET req == requests[r]
         code == VerifyActionToken(req.token)
     IN SetReq(r, IF code # 0 THEN Answer(req, code)
                  ELSE IF ~PayloadMatches(req.token, req.kind, req.target)
                  THEN Answer([req EXCEPT !.verified = TRUE], 403)
                  ELSE [req EXCEPT !.verified = TRUE,
                           !.pc = IF req.kind = "sign" THEN "sign_read" ELSE "read"])
  /\ UNCHANGED <<db, tasks, triggered, apart>>

\* A status check that lets a confirmed event through as well.
StatusOpenOrConfirmed(status) == status \in {"proposed", "manual_review", "confirmed"}

\* The status a confirm or reject may start from.
StatusOpen(status) == status \in {"proposed", "manual_review"}

\* confirm and reject: read the change event and check its status.
ReadChangeEvent(r) ==
  /\ At(r, {"confirm", "reject"}, "read")
  /\ LET req == requests[r]
     IN SetReq(r, IF req.target \notin DOMAIN change_events THEN Answer(req, 404)
                  ELSE IF ~StatusOpen(change_events[req.target].status)
                  THEN Answer(req, 409)
                  ELSE [req EXCEPT !.seen = change_events[req.target].status,
                                   !.pc = "mark"])
  /\ UNCHANGED <<db, tasks, triggered, apart>>

\* confirm, reject and sign: mark the token's notifications row as used.
MarkTokenUsed(r) ==
  /\ At(r, TokenKinds, "mark")
  /\ LET req == requests[r]
     IN /\ notifications' = [notifications EXCEPT
              ![req.token].used_at = TRUE,
              ![req.token].marks = notifications[req.token].marks + 1]
        /\ SetReq(r, [req EXCEPT !.wrote = TRUE,
              !.pc = IF req.kind = "sign" THEN "sign_update" ELSE "update"])
  /\ UNCHANGED <<ingest_events, change_events, change_event_sources,
                 state_transitions, change_orders, change_order_items, tasks, triggered, apart>>

\* confirm and reject: write the new status, filtered by the id alone.
UpdateStatus(r) ==
  /\ At(r, {"confirm", "reject"}, "update")
  /\ LET req == requests[r]
     IN /\ change_events' = [change_events EXCEPT ![req.target] =
              IF req.kind = "confirm"
              THEN [@ EXCEPT !.status = "confirmed", !.confirmed_at = TRUE]
              ELSE [@ EXCEPT !.status = "rejected", !.rejected_at = TRUE]]
        /\ SetReq(r, [req EXCEPT !.wrote = TRUE, !.pc = "record"])
  /\ UNCHANGED <<ingest_events, change_event_sources, state_transitions,
                 notifications, change_orders, change_order_items, tasks, triggered, apart>>

\* confirm and reject: _record_transition(from the status read, to the new one).
RecordTransition(r) ==
  /\ At(r, {"confirm", "reject"}, "record")
  /\ LET req == requests[r]
     IN /\ state_transitions' = Append(state_transitions,
              Transition("change_event", req.target, req.seen,
                         IF req.kind = "confirm" THEN "confirmed" ELSE "rejected",
                         "contractor"))
        /\ SetReq(r, IF req.kind = "confirm" THEN [req EXCEPT !.pc = "co_count"]
                     ELSE Answer(req, 200))
  /\ UNCHANGED <<ingest_events, change_events, change_event_sources,
                 notifications, change_orders, change_order_items, tasks, triggered, apart>>

OrdersOf(project) ==
  {c \in DOMAIN change_orders : change_orders[c].project_id = project}

\* _auto_create_change_order: count the project's change orders.
CountOrders(r) ==
  /\ At(r, {"confirm"}, "co_count")
  /\ LET req == requests[r]
     IN SetReq(r, [req EXCEPT
           !.num = Cardinality(OrdersOf(change_events[req.target].project_id)) + 1,
           !.pc = "co_insert"])
  /\ UNCHANGED <<db, tasks, triggered, apart>>

\* _auto_create_change_order: insert the draft change order.
InsertOrder(r) ==
  /\ At(r, {"confirm"}, "co_insert")
  /\ LET req == requests[r]
     IN /\ change_orders' = Append(change_orders,
              [project_id |-> change_events[req.target].project_id,
               order_number |-> req.num, status |-> "draft", signed_at |-> FALSE,
               subtotal |-> 0, pdf_url |-> FALSE])
        /\ SetReq(r, [req EXCEPT !.co = Len(change_orders) + 1, !.pc = "co_item"])
  /\ UNCHANGED <<ingest_events, change_events, change_event_sources,
                 state_transitions, notifications, change_order_items, tasks, triggered, apart>>

\* the id the table gives the next row of change_order_items
NextItemId ==
  IF change_order_items = {} THEN 1
  ELSE 1 + CHOOSE n \in {i.id : i \in change_order_items} :
              \A i \in change_order_items : i.id <= n

\* _auto_create_change_order: insert the line item of the change event.
InsertItem(r) ==
  /\ At(r, {"confirm"}, "co_item")
  /\ LET req == requests[r]
     IN /\ change_order_items' = change_order_items \cup
              {[id |-> NextItemId, change_order_id |-> req.co,
                change_event_id |-> req.target, total_cost |-> 0]}
        /\ SetReq(r, [req EXCEPT !.pc = "co_tr"])
  /\ UNCHANGED <<ingest_events, change_events, change_event_sources,
                 state_transitions, notifications, change_orders, tasks, triggered, apart>>

\* _auto_create_change_order: record None -> draft; the request is answered.
InsertOrderTransition(r) ==
  /\ At(r, {"confirm"}, "co_tr")
  /\ LET req == requests[r]
     IN /\ state_transitions' = Append(state_transitions,
              Transition("change_order", req.co, None, "draft", "system"))
        /\ SetReq(r, Answer(req, 200))
  /\ UNCHANGED <<ingest_events, change_events, change_event_sources,
                 notifications, change_orders, change_order_items, tasks, triggered, apart>>

\* sign: read the change order; 410 if it is signed already. (The project's
\* client_email never changes here, so the token's always matches it.)
SignRead(r) ==
  /\ At(r, {"sign"}, "sign_read")
  /\ LET req == requests[r]
     IN SetReq(r, IF req.target \notin DOMAIN change_orders THEN Answer(req, 404)
                  ELSE IF change_orders[req.target].status = "signed"
                  THEN Answer(req, 410)
                  ELSE [req EXCEPT !.seen = change_orders[req.target].status,
                                   !.pc = "mark"])
  /\ UNCHANGED <<db, tasks, triggered, apart>>

\* sign: write status signed on the change order.
SignOrder(r) ==
  /\ At(r, {"sign"}, "sign_update")
  /\ LET req == requests[r]
     IN /\ change_orders' = [change_orders EXCEPT ![req.target] =
              [@ EXCEPT !.status = "signed", !.signed_at = TRUE]]
        /\ SetReq(r, [req EXCEPT !.pc = "sign_record"])
  /\ UNCHANGED <<ingest_events, change_events, change_event_sources,
                 state_transitions, notifications, change_order_items, tasks, triggered, apart>>

\* sign: record the change order's transition to signed (actor client).
RecordSign(r) ==
  /\ At(r, {"sign"}, "sign_record")
  /\ LET req == requests[r]
     IN /\ state_transitions' = Append(state_transitions,
              Transition("change_order", req.target, req.seen, "signed", "client"))
        /\ SetReq(r, [req EXCEPT !.pc = "sign_select"])
  /\ UNCHANGED <<ingest_events, change_events, change_event_sources,
                 notifications, change_orders, change_order_items, tasks, triggered, apart>>

\* The rows the sign endpoint selects as linked: the change events of the
\* change order's project whose status is proposed or confirmed.
LinkedStatuses == {"proposed", "confirmed"}
LinkedIds(project) ==
  {c \in DOMAIN change_events : /\ change_events[c].project_id = project
                                /\ change_events[c].status \in LinkedStatuses}

RECURSIVE Rows(_, _)
\* the selected rows (id, status) in id order
Rows(ids, from) ==
  IF from > Len(change_events) THEN <<>>
  ELSE (IF from \in ids
        THEN <<[id |-> from, status |-> change_events[from].status]>>
        ELSE <<>>) \o Rows(ids, from + 1)

\* sign: select the linked change events.
SelectLinked(r) ==
  /\ At(r, {"sign"}, "sign_select")
  /\ LET req == requests[r]
         rows == Rows(LinkedIds(change_orders[req.target].project_id), 1)
     IN SetReq(r, IF rows = <<>> THEN Answer(req, 200)
                  ELSE [req EXCEPT !.linked = rows, !.pc = "sign_ce"])
  /\ UNCHANGED <<db, tasks, triggered, apart>>

\* sign, the loop over the selected rows: write status signed on the row.
SignChangeEvent(r) ==
  /\ At(r, {"sign"}, "sign_ce")
  /\ LET req == requests[r]
     IN /\ change_events' = [change_events EXCEPT
              ![req.linked[1].id].status = "signed"]
        /\ SetReq(r, [req EXCEPT !.pc = "sign_ce_tr"])
  /\ UNCHANGED <<ingest_events, change_event_sources, state_transitions,
                 notifications, change_orders, change_order_items, tasks, triggered, apart>>

\* sign, the loop: record the row's transition from the status selected. After
\* the last row the endpoint regenerates the PDF and notifies the contractor,
\* both inside try/except, and answers.
RecordSigned(r) ==
  /\ At(r, {"sign"}, "sign_ce_tr")
  /\ LET req == requests[r]
     IN /\ state_transitions' = Append(state_transitions,
              Transition("change_event", req.linked[1].id, req.linked[1].status,
                         "signed", "client"))
        /\ SetReq(r, IF Len(req.linked) = 1 THEN Answer(req, 200)
                     ELSE [req EXCEPT !.linked = Tail(req.linked), !.pc = "sign_ce"])
  /\ UNCHANGED <<ingest_events, change_events, change_event_sources,
                 notifications, change_orders, change_order_items, tasks, triggered, apart>>

\* send_to_client: ownership, status draft, at least one line item.
SendCheck(r) ==
  /\ At(r, {"send"}, "send_check")
  /\ LET req == requests[r]
     IN SetReq(r,
          IF req.target \notin DOMAIN change_orders THEN Answer(req, 404)
          ELSE IF Owner(change_orders[req.target].project_id) # req.who
          THEN Answer(req, 404)
          ELSE IF change_orders[req.target].status # "draft" THEN Answer(req, 409)
          ELSE IF ~\E i \in change_order_items : i.change_order_id = req.target
          THEN Answer(req, 400)
          ELSE [req EXCEPT !.pc = "send_token"])
  /\ UNCHANGED <<db, tasks, triggered, apart>>

\* send_client_sign_request: store the notification carrying the sign token.
StoreSignToken(r) ==
  /\ At(r, {"send"}, "send_token")
  /\ notifications' = Append(notifications, TokenRow(0, requests[r].target, "sign"))
  /\ SetReq(r, [requests[r] EXCEPT !.wrote = TRUE, !.pc = "send_status"])
  /\ UNCHANGED <<ingest_events, change_events, change_event_sources,
                 state_transitions, change_orders, change_order_items, tasks, triggered, apart>>

\* send_client_sign_request: write status sent_to_client.
MarkSent(r) ==
  /\ At(r, {"send"}, "send_status")
  /\ change_orders' = [change_orders EXCEPT
        ![requests[r].target].status = "sent_to_client"]
  /\ SetReq(r, [requests[r] EXCEPT !.pc = "send_tr"])
  /\ UNCHANGED <<ingest_events, change_events, change_event_sources,
                 state_transitions, notifications, change_order_items, tasks, triggered, apart>>

\* send_client_sign_request: record draft -> sent_to_client; answer.
RecordSent(r) ==
  /\ At(r, {"send"}, "send_tr")
  /\ state_transitions' = Append(state_transitions,
        Transition("change_order", requests[r].target, "draft", "sent_to_client",
                   "contractor"))
  /\ SetReq(r, Answer(requests[r], 200))
  /\ UNCHANGED <<ingest_events, change_events, change_event_sources,
                 notifications, change_orders, change_order_items, tasks, triggered, apart>>

\* create_manual_change_event: ownership of the project, then the ingest
\* event of the manual entry (already completed).
ManualIngest(r, project) ==
  /\ At(r, {"manual"}, "manual_ingest")
  /\ IF Owner(project) # requests[r].who
     THEN /\ SetReq(r, Answer(requests[r], 404))
          /\ UNCHANGED ingest_events
     ELSE /\ ingest_events' = Append(ingest_events,
                [project_id |-> project, processing_status |-> "completed",
                 error_message |-> 0])
          /\ SetReq(r, [requests[r] EXCEPT !.wrote = TRUE, !.pc = "manual_ce",
                                           !.num = Len(ingest_events) + 1])
  /\ UNCHANGED <<change_events, change_event_sources, state_transitions,
                 notifications, change_orders, change_order_items, tasks, triggered, apart>>

\* create_manual_change_event: the change event, proposed.
ManualInsert(r) ==
  /\ At(r, {"manual"}, "manual_ce")
  /\ Len(change_events) < MaxCE
  /\ LET req == requests[r]
     IN /\ change_events' = Append(change_events,
              [project_id |-> ingest_events[req.num].project_id,
               status |-> "proposed", confidence_score |-> 100,
               confirmed_at |-> FALSE, rejected_at |-> FALSE, edited |-> FALSE,
               made_by |-> "manual", src_ie |-> req.num])
        /\ SetReq(r, [req EXCEPT !.target = Len(change_events) + 1,
                                 !.pc = "manual_src"])
  /\ UNCHANGED <<ingest_events, change_event_sources, state_transitions,
                 notifications, change_orders, change_order_items, tasks, triggered, apart>>

\* create_manual_change_event: the source link.
ManualSource(r) ==
  /\ At(r, {"manual"}, "manual_src")
  /\ change_event_sources' = change_event_sources \cup
        {[change_event_id |-> requests[r].target, ingest_event_id |-> requests[r].num]}
  /\ SetReq(r, [requests[r] EXCEPT !.pc = "manual_tr"])
  /\ UNCHANGED <<ingest_events, change_events, state_transitions,
                 notifications, change_orders, change_order_items, tasks, triggered, apart>>

\* create_manual_change_event: record None -> proposed (actor contractor).
ManualTransition(r) ==
  /\ At(r, {"manual"}, "manual_tr")
  /\ state_transitions' = Append(state_transitions,
        Transition("change_event", requests[r].target, None, "proposed", "contractor"))
  /\ SetReq(r, Answer(requests[r], 201))
  /\ UNCHANGED <<ingest_events, change_events, change_event_sources,
                 notifications, change_orders, change_order_items, tasks, triggered, apart>>

\* update_change_event: ownership and the status check.
EditCheck(r) ==
  /\ At(r, {"update"}, "edit_check")
  /\ LET req == requests[r]
     IN SetReq(r,
          IF req.target \notin DOMAIN change_events THEN Answer(req, 404)
          ELSE IF change_events[req.target].project_id = None THEN Answer(req, 404)
          ELSE IF Owner(change_events[req.target].project_id) # req.who
          THEN Answer(req, 404)
          ELSE IF ~StatusOpen(change_events[req.target].status) THEN Answer(req, 409)
          ELSE [req EXCEPT !.seen = change_events[req.target].status,
                           !.pc = "edit_write"])
  /\ UNCHANGED <<db, tasks, triggered, apart>>

\* update_change_event: write the edited fields (never the status).
EditWrite(r) ==
  /\ At(r, {"update"}, "edit_write")
  /\ change_events' = [change_events EXCEPT ![requests[r].target].edited = TRUE]
  /\ SetReq(r, [requests[r] EXCEPT !.wrote = TRUE, !.pc = "edit_record"])
  /\ UNCHANGED <<ingest_events, change_event_sources, state_transitions,
                 notifications, change_orders, change_order_items, tasks, triggered, apart>>

\* update_change_event: record the edit as a transition status -> status.
EditRecord(r) ==
  /\ At(r, {"update"}, "edit_record")
  /\ state_transitions' = Append(state_transitions,
        Transition("change_event", requests[r].target, requests[r].seen,
                   requests[r].seen, "contractor"))
  /\ SetReq(r, Answer(requests[r], 200))
  /\ UNCHANGED <<ingest_events, change_events, change_event_sources,
                 notifications, change_orders, change_order_items, tasks, triggered, apart>>

Kinds == {"confirm", "reject", "sign", "send", "update", "manual"}

\* The worker has nothing queued or running.
PipelineIdle ==
  /\ tasks # <<>>
  /\ \A t \in DOMAIN tasks : tasks[t].pc \notin Running \cup {"queued"}

\* The approval workflow over a working pipeline: the worker persists and
\* notifies without failure; then confirm, reject, send and sign requests
\* arrive and interleave, up to MaxInFlight at a time.
NextWorkflow ==
  \/ \E p \in Projects : Ingest(p)
  \/ \E t \in DOMAIN tasks : StartProcessing(t, FALSE)
  \/ \E t \in DOMAIN tasks, batch \in Batches : FetchAndAnalyze(t, FALSE, batch)
  \/ \E t \in DOMAIN tasks : InsertChangeEvent(t, FALSE)
  \/ \E t \in DOMAIN tasks : InsertSource(t, FALSE)
  \/ \E t \in DOMAIN tasks : InsertTransition(t, FALSE)
  \/ \E t \in DOMAIN tasks : MarkCompleted(t, FALSE)
  \/ \E t \in DOMAIN tasks : Notify(t, 2)
  \/ \E kind \in TokenKinds \cup {"send"}, who \in Contractors \cup {None},
        target \in 0..MaxCE, token \in 0..(2 * MaxCE + MaxReq) :
        PipelineIdle /\ Arrive(kind, who, target, token)
  \/ \E r \in DOMAIN requests : Verify(r)
  \/ \E r \in DOMAIN requests : ReadChangeEvent(r)
  \/ \E r \in DOMAIN requests : MarkTokenUsed(r)
  \/ \E r \in DOMAIN requests : UpdateStatus(r)
  \/ \E r \in DOMAIN requests : RecordTransition(r)
  \/ \E r \in DOMAIN requests : CountOrders(r)
  \/ \E r \in DOMAIN requests : InsertOrder(r)
  \/ \E r \in DOMAIN requests : InsertItem(r)
  \/ \E r \in DOMAIN requests : InsertOrderTransition(r)
  \/ \E r \in DOMAIN requests : SignRead(r)
  \/ \E r \in DOMAIN requests : SignOrder(r)
  \/ \E r \in DOMAIN requests : RecordSign(r)
  \/ \E r \in DOMAIN requests : SelectLinked(r)
  \/ \E r \in DOMAIN requests : SignChangeEvent(r)
  \/ \E r \in DOMAIN requests : RecordSigned(r)
  \/ \E r \in DOMAIN requests : SendCheck(r)
  \/ \E r \in DOMAIN requests : StoreSignToken(r)
  \/ \E r \in DOMAIN requests : MarkSent(r)
  \/ \E r \in DOMAIN requests : RecordSent(r)

SpecWorkflow == Init /\ [][NextWorkflow]_vars

NoneInFlight == \A r \in DOMAIN requests : requests[r].pc = "ended"

\* The approval workflow with the requests handled one at a time (a single
\* server process whose handlers never yield): every endpoint, no overlap.
NextSequential ==
  \/ \E p \in Projects : Ingest(p)
  \/ \E t \in DOMAIN tasks : StartProcessing(t, FALSE)
  \/ \E t \in DOMAIN tasks, batch \in Batches : FetchAndAnalyze(t, FALSE, batch)
  \/ \E t \in DOMAIN tasks : InsertChangeEvent(t, FALSE)
  \/ \E t \in DOMAIN tasks : InsertSource(t, FALSE)
  \/ \E t \in DOMAIN tasks : InsertTransition(t, FALSE)
  \/ \E t \in DOMAIN tasks : MarkCompleted(t, FALSE)
  \/ \E t \in DOMAIN tasks : Notify(t, 2)
  \/ \E kind \in Kinds, who \in Contractors \cup {None},
        target \in 0..MaxCE, token \in 0..(2 * MaxCE + MaxReq) :
        PipelineIdle /\ NoneInFlight /\ Arrive(kind, who, target, token)
  \/ \E r \in DOMAIN requests : Verify(r)
  \/ \E r \in DOMAIN requests : ReadChangeEvent(r)
  \/ \E r \in DOMAIN requests : MarkTokenUsed(r)
  \/ \E r \in DOMAIN requests : UpdateStatus(r)
  \/ \E r \in DOMAIN requests : RecordTransition(r)
  \/ \E r \in DOMAIN requests : CountOrders(r)
  \/ \E r \in DOMAIN requests : InsertOrder(r)
  \/ \E r \in DOMAIN requests : InsertItem(r)
  \/ \E r \in DOMAIN requests : InsertOrderTransition(r)
  \/ \E r \in DOMAIN requests : SignRead(r)
  \/ \E r \in DOMAIN requests : SignOrder(r)
  \/ \E r \in DOMAIN requests : RecordSign(r)
  \/ \E r \in DOMAIN requests : SelectLinked(r)
  \/ \E r \in DOMAIN requests : SignChangeEvent(r)
  \/ \E r \in DOMAIN requests : RecordSigned(r)
  \/ \E r \in DOMAIN requests : SendCheck(r)
  \/ \E r \in DOMAIN requests : StoreSignToken(r)
  \/ \E r \in DOMAIN requests : MarkSent(r)
  \/ \E r \in DOMAIN requests : RecordSent(r)
  \/ \E r \in DOMAIN requests, p \in Projects : ManualIngest(r, p)
  \/ \E r \in DOMAIN requests : ManualInsert(r)
  \/ \E r \in DOMAIN requests : ManualSource(r)
  \/ \E r \in DOMAIN requests : ManualTransition(r)
  \/ \E r \in DOMAIN requests : EditCheck(r)
  \/ \E r \in DOMAIN requests : EditWrite(r)
  \/ \E r \in DOMAIN requests : EditRecord(r)

SpecSequential == Init /\ [][NextSequential]_vars

\* ================================================================ claims
Range(seq) == {seq[i] : i \in DOMAIN seq}

\* The change event's three inserts are under way: a running attempt has
\* written the row and not yet its source link or its transition.
BeingWritten(id) ==
  \E t \in DOMAIN tasks : /\ tasks[t].pc \in {"insert_src", "insert_tr"}
                          /\ tasks[t].ce = id

HasSource(id) ==
  \E l \in change_event_sources : /\ l.change_event_id = id
                                  /\ l.ingest_event_id = change_events[id].src_ie

HasCreation(id) ==
  \E i \in DOMAIN state_transitions :
     state_transitions[i] = Transition("change_event", id, None,
                               StatusFor(change_events[id].confidence_score), "ai")

\* C1: a change event created by the orchestrator exists if and only if both
\* its source link to the originating ingest event and its transition
\* (None -> its status, actor ai) exist, also when an insert fails or the job
\* dies between two inserts. Stated here in the claim's favour: a row whose
\* attempt is still between its inserts is not counted.
C1_AtomicProvenance ==
  /\ \A id \in DOMAIN change_events :
        (change_events[id].made_by = "ai" /\ ~BeingWritten(id))
           => (HasSource(id) /\ HasCreation(id))
  /\ \A l \in change_event_sources : l.change_event_id \in DOMAIN change_events
  /\ \A i \in DOMAIN state_transitions :
        state_transitions[i].entity_type = "change_event"
           => state_transitions[i].entity_id \in DOMAIN change_events

ManualReviewOf(ie) ==
  {id \in DOMAIN change_events : /\ change_events[id].src_ie = ie
                                 /\ change_events[id].status = "manual_review"
                                 /\ change_events[id].made_by = "fallback"}

\* C2: for every ingest event, with or without a project, whose attempts all
\* raised until the retries were exhausted, the ingest event is failed and
\* exactly one manual_review change event made for it exists.
C2_NoLoss ==
  \A t \in DOMAIN tasks :
     tasks[t].pc = "gave_up"
       => /\ ingest_events[tasks[t].ie].processing_status = "failed"
          /\ Cardinality(ManualReviewOf(tasks[t].ie)) = 1

Succeeded(r) == requests[r].pc = "ended" /\ requests[r].result = 200

\* C3: of the confirm and reject requests on one change event, however they
\* interleave, at most one succeeds: no request that read a stale status
\* writes over the status another one has set.
C3_OneTransitionWins ==
  \A r1, r2 \in DOMAIN requests :
     (/\ r1 # r2
      /\ requests[r1].kind \in {"confirm", "reject"}
      /\ requests[r2].kind \in {"confirm", "reject"}
      /\ requests[r1].target = requests[r2].target
      /\ Succeeded(r1))
       => ~Succeeded(r2)

\* C4: a token delivered twice is marked used once, and at most one of the
\* requests carrying it gets past the marking to perform its action.
C4_TokenMarkedOnce ==
  \A tok \in DOMAIN notifications :
     /\ notifications[tok].marks <= 1
     /\ Cardinality({r \in DOMAIN requests :
           /\ requests[r].kind \in TokenKinds
           /\ requests[r].token = tok
           /\ requests[r].wrote}) <= 1

\* C5: of the verifications of one token at most one, the first, succeeds:
\* no two requests carrying the same token both pass verify_action_token.
C5_SecondVerificationFails ==
  \A r1, r2 \in DOMAIN requests :
     (/\ r1 # r2
      /\ requests[r1].token # BadToken
      /\ requests[r1].token = requests[r2].token
      /\ requests[r1].verified)
       => ~requests[r2].verified

AllowedEdges ==
  {<<"proposed", "confirmed">>, <<"proposed", "rejected">>,
   <<"manual_review", "confirmed">>, <<"manual_review", "rejected">>,
   <<"confirmed", "signed">>}

\* C6: every change of a change event's status follows proposed->confirmed,
\* proposed->rejected, manual_review->confirmed, manual_review->rejected or
\* confirmed->signed (so rejected and signed are never left).
C6_OnlyAllowedEdges ==
  [][\A id \in DOMAIN change_events :
        change_events'[id].status # change_events[id].status
          => <<change_events[id].status, change_events'[id].status>> \in AllowedEdges]_vars

IsLogOf(id, tr) == tr.entity_type = "change_event" /\ tr.entity_id = id

\* C7: the transitions recorded for a change event start from None, chain
\* (each from_status is the preceding to_status) and end at its current
\* status, whoever created it. A row whose attempt is still between its
\* inserts is not counted.
C7_HistoryFromLog ==
  \A id \in DOMAIN change_events :
     ~BeingWritten(id)
       => LET log == SelectSeq(state_transitions, LAMBDA tr : IsLogOf(id, tr))
          IN /\ log # <<>>
             /\ log[1].from_status = None
             /\ log[Len(log)].to_status = change_events[id].status
             /\ \A i \in 2..Len(log) : log[i].from_status = log[i - 1].to_status

Closed == {"confirmed", "rejected", "signed"}

\* A step of request r: confirm or reject, which arrived at a closed event.
StepOnClosed(r) ==
  /\ requests[r].kind \in {"confirm", "reject"}
  /\ requests[r].arrived \in Closed
  /\ requests'[r] # requests[r]

\* C8 (as the code has it): a confirm or reject request arriving at a change
\* event that is confirmed, rejected or signed changes nothing in the
\* database and is refused: by the token check with 401, 403 or 410 (410 when
\* its token is already marked used), and otherwise by the status check, 409.
C8_ClosedEventRefused ==
  [][\A r \in DOMAIN requests :
        StepOnClosed(r)
          => /\ UNCHANGED db
             /\ requests[r].pc \in {"verify", "read"}
             /\ requests[r].pc = "verify"
                  => \/ requests'[r].pc = "read"
                     \/ /\ requests'[r].pc = "ended"
                        /\ requests'[r].result \in {401, 403}
                     \/ /\ requests'[r].pc = "ended"
                        /\ requests'[r].result = 410
                        /\ notifications[requests[r].token].used_at
             /\ requests[r].pc = "read"
                  => /\ requests'[r].pc = "ended"
                     /\ requests'[r].result = 409]_vars

\* C8, reached: a request that arrived at a closed event was refused with 409.
C8_Witness ==
  \E r \in DOMAIN requests :
     /\ requests[r].kind \in {"confirm", "reject"}
     /\ requests[r].arrived \in Closed
     /\ requests[r].pc = "ended"
     /\ requests[r].result = 409

\* C8 as stated: a confirm or reject request on a closed change event (its
\* token being one issued for this action on this event) fails with 409 and
\* changes nothing.
C8_AsStated ==
  [][\A r \in DOMAIN requests :
        (/\ StepOnClosed(r)
         /\ requests[r].token \in DOMAIN notifications
         /\ PayloadMatches(requests[r].token, requests[r].kind, requests[r].target)
         /\ requests'[r].pc = "ended")
          => /\ requests'[r].result = 409
             /\ UNCHANGED db]_vars

AiEventsOf(ie) ==
  {id \in DOMAIN change_events : /\ change_events[id].made_by = "ai"
                                 /\ change_events[id].src_ie = ie}

\* C9: when the ingest event reaches a terminal status nothing written by an
\* abandoned attempt remains: at the write of completed the orchestrator's
\* change events of the ingest event are those of the completing attempt, and
\* at the write of failed there is none.
C9_AbandonedResultsDiscarded ==
  [][\A t \in DOMAIN tasks :
        /\ (tasks[t].pc = "mark_completed" /\ tasks'[t].pc \in {"notify", "done"})
             => AiEventsOf(tasks[t].ie) \subseteq Range(tasks[t].created)
        /\ (tasks[t].pc = "mark_failed" /\ tasks'[t].pc = "fallback")
             => AiEventsOf(tasks[t].ie) = {}]_vars

\* The attempt is between its write of processing and its write of a
\* terminal status.
Owning(tt, t) ==
  tt[t].pc \in {"fetch", "insert_ce", "insert_src", "insert_tr", "mark_completed",
                "mark_failed"}

\* C10: no two attempts on one ingest event are at the same time between the
\* write of processing and the write of a terminal status, and an ingest
\* event in completed or failed is never put back to processing.
C10_ExclusiveOwnership ==
  [][/\ \A t1, t2 \in DOMAIN tasks' :
          (t1 # t2 /\ tasks'[t1].ie = tasks'[t2].ie /\ Owning(tasks', t1))
            => ~Owning(tasks', t2)
     /\ \A ie \in DOMAIN ingest_events :
          ingest_events[ie].processing_status \in {"completed", "failed"}
            => ingest_events'[ie].processing_status # "processing"]_vars

\* ------------------------------------------------ the worker, scheduled
\* The pipeline with a failing database and a worker that keeps running: every
\* database call may raise, every orchestrator run returns or raises, and a
\* task that can take a step eventually takes one.
NextLive ==
  \/ \E p \in Projects \cup {None} : Ingest(p)
  \/ \E t \in DOMAIN tasks, fail \in BOOLEAN : StartProcessing(t, fail)
  \/ \E t \in DOMAIN tasks, fail \in BOOLEAN, batch \in Batches :
        FetchAndAnalyze(t, fail, batch)
  \/ \E t \in DOMAIN tasks, fail \in BOOLEAN : InsertChangeEvent(t, fail)
  \/ \E t \in DOMAIN tasks, fail \in BOOLEAN : InsertSource(t, fail)
  \/ \E t \in DOMAIN tasks, fail \in BOOLEAN : InsertTransition(t, fail)
  \/ \E t \in DOMAIN tasks, fail \in BOOLEAN : MarkCompleted(t, fail)
  \/ \E t \in DOMAIN tasks, stored \in 0..2 : Notify(t, stored)
  \/ \E t \in DOMAIN tasks, fail \in BOOLEAN : MarkFailed(t, fail)
  \/ \E t \in DOMAIN tasks, fail \in BOOLEAN : Fallback(t, fail)

SpecLive == Init /\ [][NextLive]_vars /\ WF_vars(NextLive)

Terminal == {"completed", "failed"}

\* C11: every ingest event for which process_content was enqueued eventually
\* has processing_status completed or failed, also when the database writes
\* of the failure handler fail.
C11_EventuallyTerminal ==
  \A ie \in 1..NumIngest :
     [](ie \in DOMAIN ingest_events
          => <>(/\ ie \in DOMAIN ingest_events
                /\ ingest_events[ie].processing_status \in Terminal))

Phases == 1..3

\* A description is a text: a sequence of characters.
Letters ==
  <<"a", "b", "c", "d", "e", "f", "g", "h", "i", "j", "k", "l", "m",
    "n", "o", "p", "q", "r", "s", "t", "u", "v", "w", "x", "y", "z">>
Capitals ==
  <<"A", "B", "C", "D", "E", "F", "G", "H", "I", "J", "K", "L", "M",
    "N", "O", "P", "Q", "R", "S", "T", "U", "V", "W", "X", "Y", "Z">>
Whitespace == {" ", "\t"}

\* str.lower(), character by character
Lower(c) ==
  IF \E i \in DOMAIN Capitals : Capitals[i] = c
  THEN Letters[CHOOSE i \in DOMAIN Capitals : Capitals[i] = c]
  ELSE c

RECURSIVE Split(_, _)
\* set(text.split()): the maximal runs without whitespace; word is the run
\* being read
Split(text, word) ==
  IF text = <<>> THEN (IF word = <<>> THEN {} ELSE {word})
  ELSE IF Head(text) \in Whitespace
       THEN (IF word = <<>> THEN {} ELSE {word}) \cup Split(Tail(text), <<>>)
       ELSE Split(Tail(text), Append(word, Head(text)))

\* set(proposal.description.lower().split())
Tokens(description) ==
  Split([i \in DOMAIN description |-> Lower(description[i])], <<>>)

\* An item of a classifier answer: its is_change_event flag ("missing": the
\* key is absent), its confidence (Missing: the key is absent) and its
\* description.
Missing == -1
ItemFlags == {"true", "false", "missing"}
ItemConfidences == {69, 70, 71, Missing}
Descriptions == {<<"w">>, <<"w", " ", "x">>}
Items ==
  [is_change_event : ItemFlags, confidence : ItemConfidences,
   description : Descriptions]
Answers == UNION {[1..n -> Items] : n \in 0..MaxItems}

\* A filter that lets an item without the flag through.
IsChangeUnlessFalse(item) == item.is_change_event # "false"

\* not change.get("is_change_event", False)
IsChange(item) == item.is_change_event = "true"

\* The ChangeEventProposal built from an item; from (the phase) and marked
\* (the item's flag) are bookkeeping.
Propose(item, phase) ==
  [confidence |-> IF item.confidence = Missing THEN DefaultConfidence
                  ELSE item.confidence,
   description |-> item.description, from |-> phase,
   marked |-> item.is_change_event]

RECURSIVE Detect(_, _)
\* the loop over parsed["changes"] of detect_changes_in_text and
\* extract_changes_from_image
Detect(items, phase) ==
  IF items = <<>> THEN <<>>
  ELSE (IF IsChange(Head(items)) THEN <<Propose(Head(items), phase)>> ELSE <<>>)
       \o Detect(Tail(items), phase)

\* max(len(desc_tokens | seen_tokens), 1)
Divisor(a, b) ==
  IF Cardinality(a \cup b) > 1 THEN Cardinality(a \cup b) ELSE 1

\* An overlap test that lets a pair at the threshold through.
OverlapsAbove(a, b) ==
  /\ a # {}
  /\ b # {}
  /\ 100 * Cardinality(a \cap b) > similarity_threshold * Divisor(a, b)

\* An overlap test that takes two empty token sets for the same description.
OverlapsOrBothEmpty(a, b) ==
  \/ a = {} /\ b = {}
  \/ /\ a # {}
     /\ b # {}
     /\ 100 * Cardinality(a \cap b) >= similarity_threshold * Divisor(a, b)

\* overlap >= similarity_threshold; an empty token set is passed over before
\* the division
Overlaps(a, b) ==
  /\ a # {}
  /\ b # {}
  /\ 100 * Cardinality(a \cap b) >= similarity_threshold * Divisor(a, b)

RECURSIVE DedupIntoFront(_, _)
\* A loop that puts each accepted pair in front of the accepted ones.
DedupIntoFront(kept, rest) ==
  IF rest = <<>> THEN kept
  ELSE IF \E i \in DOMAIN kept :
             Overlaps(Tokens(Head(rest).description), Tokens(kept[i].description))
       THEN DedupIntoFront(kept, Tail(rest))
       ELSE DedupIntoFront(<<Head(rest)>> \o kept, Tail(rest))

RECURSIVE DedupIntoLatest(_, _)
\* A loop in which a near-duplicate takes the place of the accepted pair it
\* matches.
DedupIntoLatest(kept, rest) ==
  IF rest = <<>> THEN kept
  ELSE IF \E i \in DOMAIN kept :
             Overlaps(Tokens(Head(rest).description), Tokens(kept[i].description))
       THEN DedupIntoLatest(
              [i \in DOMAIN kept |->
                 IF Overlaps(Tokens(Head(rest).description),
                             Tokens(kept[i].description))
                 THEN Head(rest) ELSE kept[i]], Tail(rest))
       ELSE DedupIntoLatest(Append(kept, Head(rest)), Tail(rest))

RECURSIVE DedupInto(_, _)
\* the loop over proposals: kept is deduplicated, whose token sets are
\* seen_descriptions
DedupInto(kept, rest) ==
  IF rest = <<>> THEN kept
  ELSE IF \E i \in DOMAIN kept :
             Overlaps(Tokens(Head(rest).description), Tokens(kept[i].description))
       THEN DedupInto(kept, Tail(rest))
       ELSE DedupInto(Append(kept, Head(rest)), Tail(rest))

\* _deduplicate_proposals
Deduplicate(proposals) ==
  IF Len(proposals) <= 1 THEN proposals ELSE DedupInto(<<>>, proposals)

ConfidencesOf(proposals) == [i \in DOMAIN proposals |-> proposals[i].confidence]

\* The slot of a phase in gather's result: pending, returned (out: its
\* proposals; dropped: the filter left an item out), raised, or stuck in a
\* call that never returns.
Slot(state, out, dropped) == [state |-> state, out |-> out, dropped |-> dropped]

\* A gather that raises the first exception of a phase.
GatherRaisesFirst(results) == \E i \in Phases : results[i].state = "raised"

\* gather(..., return_exceptions=True): an exception of a phase is a result.
GatherRaises(results) == FALSE

\* The phase results in the order the phases completed.
GatheredAsCompleted(task) ==
  LET ord == task.order
  IN task.results[ord[1]].out \o task.results[ord[2]].out \o task.results[ord[3]].out

\* all_proposals: the results of gather, in the order of its arguments; a
\* phase that raised is skipped.
Gathered(task) ==
  task.results[1].out \o task.results[2].out \o task.results[3].out

Proposals(results) ==
  Len(results[1].out) + Len(results[2].out) + Len(results[3].out)

\* process_ingest_event: the ingest event and its project are fetched and the
\* three phases are started.
StartPhases(t) ==
  /\ t \in DOMAIN tasks
  /\ tasks[t].pc = "fetch"
  /\ SetTask(t, [tasks[t] EXCEPT
        !.pc = "phases", !.order = <<>>, !.created = <<>>,
        !.results = [i \in Phases |-> Slot("pending", <<>>, FALSE)]])
  /\ UNCHANGED <<db, requests, triggered, apart>>

\* An external call of phase i (client.messages.create, which is given no
\* timeout) never returns; at most one phase of a run is so held.
CallHangs(t, i) ==
  /\ t \in DOMAIN tasks
  /\ tasks[t].pc = "phases"
  /\ tasks[t].results[i].state = "pending"
  /\ \A j \in Phases : tasks[t].results[j].state # "stuck"
  /\ SetTask(t, [tasks[t] EXCEPT !.results[i].state = "stuck"])
  /\ UNCHANGED <<db, requests, triggered, apart>>

\* Phase i ends: it raises, or it returns the proposals detected in the
\* classifier's answer.
FinishPhase(t, i, raises, items) ==
  /\ t \in DOMAIN tasks
  /\ tasks[t].pc = "phases"
  /\ tasks[t].results[i].state = "pending"
  /\ LET out == IF raises THEN <<>> ELSE Detect(items, i)
     IN /\ Len(change_events) + Proposals(tasks[t].results) + Len(out) <= MaxCE
        /\ SetTask(t, [tasks[t] EXCEPT
              !.results[i] = IF raises THEN Slot("raised", <<>>, FALSE)
                             ELSE Slot("returned", out, Len(out) < Len(items)),
              !.order = Append(tasks[t].order, i)])
  /\ UNCHANGED <<db, requests, triggered, apart>>

\* gather returns once every phase has ended; the results are merged and
\* deduplicated, and the persist loop starts.
Merge(t) ==
  /\ t \in DOMAIN tasks
  /\ tasks[t].pc = "phases"
  /\ \A i \in Phases : tasks[t].results[i].state \in {"returned", "raised"}
  /\ LET me == tasks[t]
         batch == ConfidencesOf(Deduplicate(Gathered(me)))
     IN SetTask(t, IF GatherRaises(me.results) THEN OnException(me)
                   ELSE [me EXCEPT
                           !.batch = batch, !.idx = 1,
                           !.pc = IF batch = <<>> THEN "mark_completed"
                                  ELSE "insert_ce"])
  /\ UNCHANGED <<db, requests, triggered, apart>>

\* The orchestrator phase by phase, over a working database and a worker that
\* keeps running.
NextPhases ==
  \/ \E p \in Projects : Ingest(p)
  \/ \E t \in DOMAIN tasks : StartProcessing(t, FALSE)
  \/ \E t \in DOMAIN tasks : StartPhases(t)
  \/ \E t \in DOMAIN tasks, i \in Phases : CallHangs(t, i)
  \/ \E t \in DOMAIN tasks, i \in Phases, raises \in BOOLEAN, items \in Answers :
        FinishPhase(t, i, raises, items)
  \/ \E t \in DOMAIN tasks : Merge(t)
  \/ \E t \in DOMAIN tasks : InsertChangeEvent(t, FALSE)
  \/ \E t \in DOMAIN tasks : InsertSource(t, FALSE)
  \/ \E t \in DOMAIN tasks : InsertTransition(t, FALSE)
  \/ \E t \in DOMAIN tasks : MarkCompleted(t, FALSE)
  \/ \E t \in DOMAIN tasks : Notify(t, 2)

SpecPhases == Init /\ [][NextPhases]_vars /\ WF_vars(NextPhases)

OutIfReturned(task, i) ==
  IF task.results[i].state = "returned" THEN task.results[i].out ELSE <<>>

\* C13: when a phase raises, process_ingest_event does not raise because of
\* it, the phase contributes no proposal, and the proposals of the phases
\* that returned are merged and deduplicated into the batch; every proposal
\* of the batch is then persisted.
C13_PhaseFailureIsolated ==
  [][\A t \in DOMAIN tasks :
        LET me == tasks[t]
        IN /\ (/\ me.pc = "phases"
               /\ tasks'[t].pc # "phases"
               /\ \E i \in Phases : me.results[i].state = "raised")
                => /\ tasks'[t].pc \in {"insert_ce", "mark_completed"}
                   /\ tasks'[t].retries = me.retries
                   /\ tasks'[t].batch =
                        ConfidencesOf(Deduplicate(OutIfReturned(me, 1)
                           \o OutIfReturned(me, 2) \o OutIfReturned(me, 3)))
           /\ (me.pc = "insert_tr" /\ tasks'[t].pc = "mark_completed")
                => /\ Len(tasks'[t].created) = Len(me.batch)
                   /\ \A k \in DOMAIN me.batch :
                        /\ tasks'[t].created[k] \in DOMAIN change_events
                        /\ change_events[tasks'[t].created[k]].confidence_score
                             = me.batch[k]]_vars

\* C13, reached: a phase raised and the proposal of another phase is persisted.
C13_Witness ==
  \E t \in DOMAIN tasks :
     /\ tasks[t].pc = "mark_completed"
     /\ tasks[t].created # <<>>
     /\ \E i \in Phases : tasks[t].results[i].state = "raised"

\* C14: when an insert of the persist loop raises for one proposal, the loop
\* goes on with the next proposal of the batch (or ends normally after the
\* last one): the run is not left through the exception.
C14_PersistFailureIsolated ==
  [][\A t \in DOMAIN tasks :
        (/\ tasks[t].pc \in {"insert_ce", "insert_src", "insert_tr"}
         /\ tasks'[t] # tasks[t]
         /\ tasks'[t].pc # "lost"
         /\ UNCHANGED db)
          => /\ tasks'[t].pc \in {"insert_ce", "mark_completed"}
             /\ tasks'[t].retries = tasks[t].retries
             /\ tasks'[t].batch = tasks[t].batch]_vars

\* C15: a call that never returns does not hold process_ingest_event for
\* ever: the phases of every run eventually end and the run goes on.
C15_NoPhaseBlocksForever ==
  \A t \in 1..MaxTasks :
     []((t \in DOMAIN tasks /\ tasks[t].pc = "phases")
          => <>(t \in DOMAIN tasks /\ tasks[t].pc # "phases"))

\* C16: whatever order the phases complete in, the batch handed to the
\* deduplicator is the text results, then the image results, then the
\* document results.
C16_MergeOrder ==
  [][\A t \in DOMAIN tasks :
        (tasks[t].pc = "phases" /\ tasks'[t].pc \in {"insert_ce", "mark_completed"})
          => tasks'[t].batch =
               ConfidencesOf(Deduplicate(tasks[t].results[1].out
                  \o tasks[t].results[2].out \o tasks[t].results[3].out))]_vars

\* C16, reached: the document phase completed before the text phase, both
\* with a proposal, and the batch was merged.
C16_Witness ==
  \E t \in DOMAIN tasks :
     /\ tasks[t].pc = "insert_ce"
     /\ tasks[t].order = <<3, 2, 1>>
     /\ tasks[t].results[1].out # <<>>
     /\ tasks[t].results[3].out # <<>>
     /\ Len(tasks[t].batch) = 2
     /\ tasks[t].batch[1] # tasks[t].batch[2]

Calls(id) == Cardinality({i \in DOMAIN triggered : triggered[i] = id})

\* C17: after a successful run the notification trigger has been called once
\* for each change event the run persisted (proposed or manual_review), and
\* for nothing else.
C17_NotifiedOnce ==
  /\ \A t \in DOMAIN tasks :
        tasks[t].pc = "done"
          => \A id \in AiEventsOf(tasks[t].ie) : Calls(id) = 1
  /\ \A i \in DOMAIN triggered :
        /\ triggered[i] \in DOMAIN change_events
        /\ change_events[triggered[i]].made_by = "ai"

\* C18: a failing notification leaves the ingest event completed and the
\* change events, source links and transitions as written; the loop goes on
\* with the next change event, and the task is not retried.
C18_NotificationFailureIsolated ==
  [][\A t \in DOMAIN tasks :
        (/\ tasks[t].pc = "notify"
         /\ tasks'[t] # tasks[t]
         /\ triggered' # triggered
         /\ Len(notifications') < Len(notifications) + 2)
          => /\ UNCHANGED <<ingest_events, change_events, change_event_sources,
                            state_transitions>>
             /\ ingest_events[tasks[t].ie].processing_status = "completed"
             /\ tasks'[t].retries = tasks[t].retries
             /\ IF tasks[t].idx < Len(tasks[t].created)
                THEN /\ tasks'[t].pc = "notify"
                     /\ tasks'[t].idx = tasks[t].idx + 1
                     /\ tasks'[t].created = tasks[t].created
                ELSE tasks'[t].pc = "done"]_vars

\* C18, reached: the run ended after a notification that failed, the ingest
\* event completed.
C18_Witness ==
  \E t \in DOMAIN tasks :
     /\ tasks[t].pc = "done"
     /\ ingest_events[tasks[t].ie].processing_status = "completed"
     /\ \E i \in DOMAIN triggered :
          Cardinality({n \in DOMAIN notifications :
             notifications[n].change_event_id = triggered[i]}) < 2

\* C19: a change event persisted by the orchestrator is proposed if and only
\* if its confidence is at least confidence_threshold, manual_review
\* otherwise, and its recorded transition has that status as to_status.
C19_ConfidenceRouting ==
  \A id \in DOMAIN change_events :
     change_events[id].made_by = "ai"
       => /\ change_events[id].status \in {"proposed", "manual_review"}
          /\ change_events[id].status = "proposed"
               <=> change_events[id].confidence_score >= confidence_threshold
          /\ ~BeingWritten(id)
               => \E i \in DOMAIN state_transitions :
                     state_transitions[i] = Transition("change_event", id, None,
                                               change_events[id].status, "ai")

\* C19, reached: events on both sides of the threshold, the boundary included.
C19_Witness ==
  \E a, b \in DOMAIN change_events :
     /\ change_events[a].confidence_score = confidence_threshold
     /\ change_events[a].status = "proposed"
     /\ change_events[b].confidence_score = confidence_threshold - 1
     /\ change_events[b].status = "manual_review"
     /\ ~BeingWritten(a)
     /\ ~BeingWritten(b)

\* C20: every proposal a phase returns comes from an item marked
\* is_change_event = true (a missing flag counts as false), and every change
\* event the run persists comes from such a proposal.
C20_OnlyMarkedItemsPersist ==
  \A t \in DOMAIN tasks :
     tasks[t].results # <<>>
       => /\ \A i \in Phases : \A k \in DOMAIN tasks[t].results[i].out :
                tasks[t].results[i].out[k].marked = "true"
          /\ \A k \in DOMAIN tasks[t].created :
                \E i \in Phases : \E j \in DOMAIN tasks[t].results[i].out :
                   /\ tasks[t].results[i].out[j].marked = "true"
                   /\ tasks[t].results[i].out[j].confidence
                        = change_events[tasks[t].created[k]].confidence_score

\* C20, reached: a phase left an item out, and a change event is persisted.
C20_Witness ==
  \E t \in DOMAIN tasks :
     /\ tasks[t].results # <<>>
     /\ tasks[t].created # <<>>
     /\ \E i \in Phases : tasks[t].results[i].dropped

\* ------------------------------------------- _deduplicate_proposals alone
RECURSIVE Sentence(_)
\* the text of the first n letters, one blank between two
Sentence(n) ==
  IF n = 0 THEN <<>>
  ELSE IF n = 1 THEN <<Letters[1]>>
  ELSE Sentence(n - 1) \o <<" ", Letters[n]>>

\* Descriptions of a batch: empty, whitespace only, the same two tokens
\* written twice (case and spacing differ), and texts of n tokens whose
\* overlaps are 11/12 (below 0.92), 12/13 and 13/14 (above, while 12/14 is
\* below) and 23/25 (0.92 exactly).
BatchDescriptions ==
  {<<>>, <<" ">>, <<"a", " ", "b">>, <<"A", " ", "\t", "b">>,
   Sentence(11), Sentence(12), Sentence(13), Sentence(14),
   Sentence(23), Sentence(25)}
Metadata == {"m1", "m2"}
\* a (proposal, metadata) pair
Pairs == [description : BatchDescriptions, metadata : Metadata]
DedupBatches == UNION {[1..n -> Pairs] : n \in 0..MaxBatch}

\* a batch is about to be handed to _deduplicate_proposals
InitDedup ==
  /\ ingest_events = <<>>
  /\ change_events = <<>>
  /\ change_event_sources = {}
  /\ state_transitions = <<>>
  /\ notifications = <<>>
  /\ change_orders = <<>>
  /\ change_order_items = {}
  /\ tasks = <<>>
  /\ requests = <<>>
  /\ triggered = <<>>
  /\ dedup \in {[NoCall EXCEPT !.batch = X] : X \in DedupBatches}
  /\ resolver = <<>>
  /\ polls = <<>>
  /\ vision = NoImages
  /\ cosine = NoPair
  /\ limiter = NoTraffic

\* _deduplicate_proposals(batch)
RunDedup ==
  /\ dedup.ran = 0
  /\ dedup' = [dedup EXCEPT !.ran = 1, !.once = Deduplicate(dedup.batch)]
  /\ UNCHANGED <<db, tasks, requests, triggered, resolver, polls, further>>

\* _deduplicate_proposals applied to what it returned
RunDedupAgain ==
  /\ dedup.ran = 1
  /\ dedup' = [dedup EXCEPT !.ran = 2, !.twice = Deduplicate(dedup.once)]
  /\ UNCHANGED <<db, tasks, requests, triggered, resolver, polls, further>>

NextDedup ==
  \/ RunDedup
  \/ RunDedupAgain

SpecDedup == InitDedup /\ [][NextDedup]_vars

\* C21: running _deduplicate_proposals on its own output removes nothing and
\* reorders nothing: the second result equals the first.
C21_DedupIdempotent ==
  dedup.ran = 2 => dedup.twice = dedup.once

\* The first run removed a pair and kept several, and the second run is done.
C21_Witness ==
  /\ dedup.ran = 2
  /\ Len(dedup.once) < Len(dedup.batch)
  /\ Len(dedup.once) >= 2

\* The ways out is batch with some positions left out: the increasing
\* choices of positions of batch that give out, pair by pair.
Survivals(out, batch) ==
  {f \in [DOMAIN out -> DOMAIN batch] :
     /\ \A i, j \in DOMAIN out : i < j => f[i] < f[j]
     /\ \A i \in DOMAIN out : out[i] = batch[f[i]]}

HasJaccard(a, b) == a \cup b # {}
Jaccard(a, b) == (100 * Cardinality(a \cap b)) \div Cardinality(a \cup b)

WithTokens(seq) == SelectSeq(seq, LAMBDA pair : Tokens(pair.description) # {})

\* C24: a pair whose description has no token (empty or whitespace only) is
\* always kept, wherever it stands, and makes no other pair be left out: the
\* pairs with tokens that survive are those that survive without it in the
\* batch; the divisor of the overlap is never zero.
C24_EmptyAlwaysKept ==
  dedup.ran >= 1 =>
     LET toks == [j \in DOMAIN dedup.batch |-> Tokens(dedup.batch[j].description)]
     IN /\ \E f \in Survivals(dedup.once, dedup.batch) :
              \A j \in DOMAIN dedup.batch :
                 toks[j] = {} => \E k \in DOMAIN f : f[k] = j
        /\ WithTokens(dedup.once) = Deduplicate(WithTokens(dedup.batch))
        /\ \A i, j \in DOMAIN dedup.batch : Divisor(toks[i], toks[j]) > 0

\* An empty and a whitespace-only description with a described pair between
\* them: the three are kept.
C24_Witness ==
  /\ dedup.ran >= 1
  /\ Len(dedup.batch) = 3
  /\ dedup.batch[1].description = <<>>
  /\ Tokens(dedup.batch[2].description) # {}
  /\ dedup.batch[3].description = <<" ">>
  /\ dedup.once = dedup.batch

\* ------------------------------------- check_and_handle_duplicates alone
\* the project of the call and another project
ResolverProjects == {"p1", "p2"}

\* A stored embedding is a vector, given by its cosine similarity to the
\* vector generate_embedding returns for the description, in
\* hundred-thousandths; <<>> is a row without embedding. The similarities
\* stand on both sides of the two thresholds; 91996 and 92003 are both
\* 0.9200 when rounded to four places.
Similarities == {79999, 80000, 91996, 92000, 92003}
Embeddings == {<<>>} \cup {<<sim>> : sim \in Similarities}

\* cosine_similarity(new_embedding, ce["embedding"])
CosineSimilarity(embedding) == embedding[1]

\* round(sim, 4), for a similarity that is not half-way between two values
Round4(sim) == ((sim + 5) \div 10) * 10

\* a row of change_events with an embedding column
StoredEvent(project, embedding) ==
  [project_id |-> project, status |-> "proposed", confidence_score |-> 70,
   confirmed_at |-> FALSE, rejected_at |-> FALSE, edited |-> FALSE,
   made_by |-> "ai", src_ie |-> 1, embedding |-> embedding]
StoredTables ==
  UNION {[1..n -> {StoredEvent(p, e) : p \in ResolverProjects, e \in Embeddings}] :
           n \in 0..MaxStored}

\* an entry of results
Match(id, sim) ==
  [change_event_id |-> id, similarity |-> Round4(sim),
   is_duplicate |-> sim >= DUPLICATE_THRESHOLD,
   is_possible_duplicate |-> POSSIBLE_DUP_THRESHOLD <= sim /\ sim < DUPLICATE_THRESHOLD]

RECURSIVE Matches(_, _, _)
\* the loop over existing.data, in the order of the rows, from row from on
Matches(project, exclude, from) ==
  IF from > Len(change_events) THEN <<>>
  ELSE LET ce == change_events[from]
           listed == /\ ce.project_id = project
                     /\ ce.embedding # <<>>
                     /\ from # exclude
       IN (IF listed /\ CosineSimilarity(ce.embedding) >= POSSIBLE_DUP_THRESHOLD
           THEN <<Match(from, CosineSimilarity(ce.embedding))>> ELSE <<>>)
          \o Matches(project, exclude, from + 1)

\* one step of list.sort(key=similarity, reverse=True): the sort is stable, so
\* an entry goes behind the entries that are not below it
SortedInsert(entry, sorted) ==
  LET k == Cardinality({i \in DOMAIN sorted :
                          sorted[i].similarity >= entry.similarity})
  IN SubSeq(sorted, 1, k) \o <<entry>> \o SubSeq(sorted, k + 1, Len(sorted))

RECURSIVE SortDescending(_)
SortDescending(results) ==
  IF results = <<>> THEN <<>>
  ELSE SortedInsert(results[Len(results)],
                    SortDescending(SubSeq(results, 1, Len(results) - 1)))

\* find_similar_change_events, once new_embedding is there; 0: no exclude_id
FindSimilar(project, exclude) == SortDescending(Matches(project, exclude, 1))

\* what check_and_handle_duplicates returns
Decision(action, existing, similarity) ==
  [action |-> action, existing_id |-> existing, similarity |-> similarity]

\* stored change events, and the ingest event the candidate comes from
InitResolver ==
  /\ ingest_events =
       <<[project_id |-> "p1", processing_status |-> "processing", error_message |-> 0]>>
  /\ change_events \in StoredTables
  /\ change_event_sources = {}
  /\ state_transitions = <<>>
  /\ notifications = <<>>
  /\ change_orders = <<>>
  /\ change_order_items = {}
  /\ tasks = <<>>
  /\ requests = <<>>
  /\ triggered = <<>>
  /\ dedup = NoCall
  /\ resolver = <<>>
  /\ polls = <<>>
  /\ vision = NoImages
  /\ cosine = NoPair
  /\ limiter = NoTraffic

SetCall(c, rec) == resolver' = [resolver EXCEPT ![c] = rec]

\* check_and_handle_duplicates(project_id, description, ingest_event_id) is
\* called; embedding is what generate_embedding will do: return a vector,
\* return [] for want of an API key, or raise (HTTP error, timeout).
CallResolver(embedding) ==
  /\ Len(resolver) < MaxCalls
  /\ resolver' = Append(resolver,
        [project_id |-> "p1", ingest_event_id |-> 1, embedding |-> embedding,
         pc |-> "embed", best |-> Match(0, 0), result |-> Decision("none", 0, 0)])
  /\ UNCHANGED <<db, tasks, requests, triggered, dedup, polls, further>>

\* generate_embedding: without key find_similar_change_events returns [] and
\* the decision is create; an exception of the request is caught nowhere.
GenerateEmbedding(c) ==
  /\ c \in DOMAIN resolver
  /\ resolver[c].pc = "embed"
  /\ SetCall(c, CASE resolver[c].embedding = "vector" ->
                       [resolver[c] EXCEPT !.pc = "query"]
                   [] resolver[c].embedding = "nokey" ->
                       [resolver[c] EXCEPT !.pc = "done",
                                           !.result = Decision("create", 0, 0)]
                   [] OTHER -> [resolver[c] EXCEPT !.pc = "raised"])
  /\ UNCHANGED <<db, tasks, requests, triggered, dedup, polls, further>>

\* The query on change_events, the ranking, and the decision on the best
\* match.
QueryAndDecide(c, fail) ==
  /\ c \in DOMAIN resolver
  /\ resolver[c].pc = "query"
  /\ LET me == resolver[c]
         similar == FindSimilar(me.project_id, 0)
         best_match == similar[1]
     IN SetCall(c,
          IF fail THEN [me EXCEPT !.pc = "raised"]
          ELSE IF similar = <<>>
          THEN [me EXCEPT !.pc = "done", !.result = Decision("create", 0, 0)]
          ELSE IF best_match.is_duplicate
          THEN [me EXCEPT !.pc = "insert", !.best = best_match]
          ELSE IF best_match.is_possible_duplicate
          THEN [me EXCEPT !.pc = "done", !.best = best_match,
                          !.result = Decision("flag", best_match.change_event_id,
                                              best_match.similarity)]
          ELSE [me EXCEPT !.pc = "done", !.result = Decision("create", 0, 0)])
  /\ UNCHANGED <<db, tasks, requests, triggered, dedup, polls, further>>

\* A merge that also marks the existing change event.
InsertLinkMarking(c, fail) ==
  /\ c \in DOMAIN resolver
  /\ resolver[c].pc = "insert"
  /\ LET me == resolver[c]
     IN IF fail
        THEN /\ SetCall(c, [me EXCEPT !.pc = "raised"])
             /\ UNCHANGED <<change_events, change_event_sources>>
        ELSE /\ change_event_sources' = change_event_sources \cup
                  {[change_event_id |-> me.best.change_event_id,
                    ingest_event_id |-> me.ingest_event_id,
                    relevance_score |-> me.best.similarity]}
             /\ change_events' =
                  [change_events EXCEPT ![me.best.change_event_id].edited = TRUE]
             /\ SetCall(c, [me EXCEPT !.pc = "done",
                   !.result = Decision("merge", me.best.change_event_id,
                                       me.best.similarity)])
  /\ UNCHANGED <<ingest_events, state_transitions, notifications,
                 change_orders, change_order_items, tasks, requests, triggered,
                 dedup, polls, further>>

\* merge: the change_event_sources row linking the ingest event to the
\* existing change event
InsertLink(c, fail) ==
  /\ c \in DOMAIN resolver
  /\ resolver[c].pc = "insert"
  /\ LET me == resolver[c]
     IN IF fail
        THEN /\ SetCall(c, [me EXCEPT !.pc = "raised"])
             /\ UNCHANGED change_event_sources
        ELSE /\ change_event_sources' = change_event_sources \cup
                  {[change_event_id |-> me.best.change_event_id,
                    ingest_event_id |-> me.ingest_event_id,
                    relevance_score |-> me.best.similarity]}
             /\ SetCall(c, [me EXCEPT !.pc = "done",
                   !.result = Decision("merge", me.best.change_event_id,
                                       me.best.similarity)])
  /\ UNCHANGED <<ingest_events, change_events, state_transitions, notifications,
                 change_orders, change_order_items, tasks, requests, triggered,
                 dedup, polls, further>>

EmbeddingOutcomes == {"vector", "nokey", "fails"}

NextResolver ==
  \/ \E embedding \in EmbeddingOutcomes : CallResolver(embedding)
  \/ \E c \in DOMAIN resolver : GenerateEmbedding(c)
  \/ \E c \in DOMAIN resolver, fail \in BOOLEAN : QueryAndDecide(c, fail)
  \/ \E c \in DOMAIN resolver, fail \in BOOLEAN : InsertLink(c, fail)

SpecResolver == InitResolver /\ [][NextResolver]_vars

\* the stored events that count for call c, and the highest similarity
Counting(c) ==
  {i \in DOMAIN change_events :
     /\ change_events[i].project_id = resolver[c].project_id
     /\ change_events[i].embedding # <<>>}
Highest(c) ==
  CHOOSE sim \in {change_events[i].embedding[1] : i \in Counting(c)} :
     \A i \in Counting(c) : change_events[i].embedding[1] <= sim
\* the decision call c has taken: merge is taken when the link is about to
\* be inserted
Taken(c) ==
  IF resolver[c].pc = "insert"
  THEN Decision("merge", resolver[c].best.change_event_id, resolver[c].best.similarity)
  ELSE resolver[c].result

\* C25: the decision follows from the highest cosine similarity s among the
\* stored events of the project that have an embedding: merge on the best
\* match when s >= 0.92, flag on it when 0.80 <= s < 0.92, create when
\* s < 0.80 or there is no such event.
C25_DecisionByBestMatch ==
  \A c \in DOMAIN resolver :
     /\ resolver[c].embedding = "vector"
     /\ resolver[c].pc \in {"insert", "done"}
     => IF Counting(c) = {} THEN Taken(c).action = "create"
        ELSE IF Highest(c) < 80000 THEN Taken(c).action = "create"
        ELSE /\ Taken(c).action = IF Highest(c) >= 92000 THEN "merge" ELSE "flag"
             /\ Taken(c).existing_id \in Counting(c)
             /\ change_events[Taken(c).existing_id].embedding[1] = Highest(c)

\* C26: check_and_handle_duplicates writes only on merge. A step that ends a
\* call with merge adds the one change_event_sources row linking the ingest
\* event to the existing change event, with the match similarity as
\* relevance_score; no other step changes change_event_sources; no step
\* inserts or modifies a change event or writes another table.
C26_WritesOnlyOnMerge ==
  [][/\ change_events' = change_events
     /\ UNCHANGED <<ingest_events, state_transitions, notifications,
                    change_orders, change_order_items>>
     /\ \A c \in DOMAIN resolver :
           resolver'[c] # resolver[c] =>
              IF resolver'[c].result.action = "merge"
              THEN change_event_sources' = change_event_sources \cup
                     {[change_event_id |-> resolver'[c].result.existing_id,
                       ingest_event_id |-> resolver[c].ingest_event_id,
                       relevance_score |-> resolver'[c].result.similarity]}
              ELSE change_event_sources' = change_event_sources
     /\ Len(resolver') > Len(resolver) =>
           change_event_sources' = change_event_sources]_vars

\* A call ended with merge and linked the ingest event to a stored event of
\* similarity 0.92003 (0.92 once rounded); the table holds a second event.
C26_Witness ==
  /\ Len(change_events) = 2
  /\ \E c \in DOMAIN resolver :
        /\ resolver[c].pc = "done"
        /\ resolver[c].result.action = "merge"
        /\ change_events[resolver[c].result.existing_id].embedding = <<92003>>
        /\ change_event_sources =
              {[change_event_id |-> resolver[c].result.existing_id,
                ingest_event_id |-> 1, relevance_score |-> 92000]}

\* C27: when no embedding can be had (no API key, or the embedding request
\* fails or times out) check_and_handle_duplicates does not raise: it returns
\* create, having written nothing.
C27_UnavailableMeansCreate ==
  \A c \in DOMAIN resolver :
     resolver[c].embedding # "vector" /\ resolver[c].pc # "embed" =>
        /\ resolver[c].pc = "done"
        /\ resolver[c].result.action = "create"
        /\ \A l \in change_event_sources : l.ingest_event_id # resolver[c].ingest_event_id

\* ------------------------------------------------------ the email poller
\* ids of the messages of the inbox, and what the provider may list
Messages == {"m1", "m2"}
Listings == {<<"m1">>, <<"m2">>, <<"m1", "m2">>, <<"m2", "m1">>}

\* the ingest_events row of a polled message
PolledEvent(msg_id, project) ==
  [project_id |-> project, processing_status |-> "pending", error_message |-> 0,
   external_message_id |-> msg_id]

SetPoll(k, rec) == polls' = [polls EXCEPT ![k] = rec]

\* Celery beat sends poll_all_inboxes every poll_interval_seconds, whether or
\* not the cycle before has ended; fetch_new_messages lists the messages of
\* the last seven days.
StartPoll(listed) ==
  /\ Len(polls) < MaxPolls
  /\ polls' = Append(polls, [pc |-> "check", listed |-> listed, idx |-> 1,
                             events |-> <<>>])
  /\ UNCHANGED <<db, tasks, requests, triggered, dedup, resolver, further>>

\* fetch_new_messages, one message per step: the select on
\* external_message_id, and the message is kept when no row has it.
CheckMessage(k) ==
  /\ k \in DOMAIN polls
  /\ polls[k].pc = "check"
  /\ LET me == polls[k]
         msg_id == me.listed[me.idx]
         existing == \E ie \in DOMAIN ingest_events :
                        ingest_events[ie].external_message_id = msg_id
         events == IF existing THEN me.events ELSE Append(me.events, msg_id)
     IN SetPoll(k, IF me.idx < Len(me.listed)
                   THEN [me EXCEPT !.idx = me.idx + 1, !.events = events]
                   ELSE [me EXCEPT !.idx = 1, !.events = events,
                                   !.pc = IF events = <<>> THEN "update"
                                          ELSE "insert"])
  /\ UNCHANGED <<db, tasks, requests, triggered, dedup, resolver, further>>

\* _poll_single_integration, one event per step: the event is routed to a
\* project (or to none), inserted, and process_content is enqueued for it.
InsertEvent(k, project) ==
  /\ k \in DOMAIN polls
  /\ polls[k].pc = "insert"
  /\ LET me == polls[k]
     IN /\ ingest_events' =
             Append(ingest_events, PolledEvent(me.events[me.idx], project))
        /\ tasks' = Append(tasks, NewTask(Len(ingest_events) + 1))
        /\ SetPoll(k, IF me.idx < Len(me.events)
                      THEN [me EXCEPT !.idx = me.idx + 1]
                      ELSE [me EXCEPT !.pc = "update"])
  /\ UNCHANGED <<change_events, change_event_sources, state_transitions,
                 notifications, change_orders, change_order_items, requests,
                 triggered, dedup, resolver, further>>

\* the update of integrations.last_polled_at ends the cycle
FinishPoll(k) ==
  /\ k \in DOMAIN polls
  /\ polls[k].pc = "update"
  /\ SetPoll(k, [polls[k] EXCEPT !.pc = "done"])
  /\ UNCHANGED <<db, tasks, requests, triggered, dedup, resolver, further>>

NextPoller ==
  \/ \E listed \in Listings : StartPoll(listed)
  \/ \E k \in DOMAIN polls : CheckMessage(k)
  \/ \E k \in DOMAIN polls, project \in Projects \cup {None} : InsertEvent(k, project)
  \/ \E k \in DOMAIN polls : FinishPoll(k)

SpecPoller == Init /\ [][NextPoller]_vars

\* C28: at most one ingest event, and so at most one process_content job,
\* exists per external message id, also when two poll cycles list the same
\* message.
C28_OneEventPerMessage ==
  /\ \A i, j \in DOMAIN ingest_events :
        ingest_events[i].external_message_id = ingest_events[j].external_message_id
           => i = j
  /\ \A t, u \in DOMAIN tasks :
        ingest_events[tasks[t].ie].external_message_id =
           ingest_events[tasks[u].ie].external_message_id => t = u

\* ------------------------------------------------ signing a sent order
\* A change order that was sent to the client: its change event was proposed
\* by the pipeline and confirmed, the order was created with its line item
\* and sent, and the notification carrying the sign token is stored.
InitSent ==
  /\ ingest_events =
       <<[project_id |-> "p1", processing_status |-> "completed", error_message |-> 0]>>
  /\ change_events =
       <<[project_id |-> "p1", status |-> "confirmed", confidence_score |-> 70,
          confirmed_at |-> TRUE, rejected_at |-> FALSE, edited |-> FALSE,
          made_by |-> "ai", src_ie |-> 1]>>
  /\ change_event_sources = {[change_event_id |-> 1, ingest_event_id |-> 1]}
  /\ state_transitions =
       <<Transition("change_event", 1, None, "proposed", "ai"),
         Transition("change_event", 1, "proposed", "confirmed", "contractor"),
         Transition("change_order", 1, None, "draft", "system"),
         Transition("change_order", 1, "draft", "sent_to_client", "contractor")>>
  /\ notifications =
       <<[TokenRow(1, 0, "confirm") EXCEPT !.used_at = TRUE, !.marks = 1],
         TokenRow(1, 0, "reject"), TokenRow(0, 1, "sign")>>
  /\ change_orders =
       <<[project_id |-> "p1", status |-> "sent_to_client", order_number |-> 1,
          signed_at |-> FALSE, subtotal |-> 0, pdf_url |-> FALSE]>>
  /\ change_order_items =
       {[id |-> 1, change_order_id |-> 1, change_event_id |-> 1, total_cost |-> 0]}
  /\ tasks = <<Ended(NewTask(1), "done")>>
  /\ requests = <<>>
  /\ triggered = <<1>>
  /\ dedup = NoCall
  /\ resolver = <<>>
  /\ polls = <<>>
  /\ vision = NoImages
  /\ cosine = NoPair
  /\ limiter = NoTraffic

\* Sign requests on the sent change order, up to MaxInFlight at a time.
NextSign ==
  \/ \E target \in DOMAIN change_orders, token \in 0..3 :
        Arrive("sign", None, target, token)
  \/ \E r \in DOMAIN requests : Verify(r)
  \/ \E r \in DOMAIN requests : SignRead(r)
  \/ \E r \in DOMAIN requests : MarkTokenUsed(r)
  \/ \E r \in DOMAIN requests : SignOrder(r)
  \/ \E r \in DOMAIN requests : RecordSign(r)
  \/ \E r \in DOMAIN requests : SelectLinked(r)
  \/ \E r \in DOMAIN requests : SignChangeEvent(r)
  \/ \E r \in DOMAIN requests : RecordSigned(r)

SpecSign == InitSent /\ [][NextSign]_vars

\* C29: a change order is signed at most once: whatever sign requests come,
\* one after the other or together, one transition to signed is recorded
\* for it and one request is answered 200.
C29_SignedOnce ==
  \A co \in DOMAIN change_orders :
     /\ Cardinality({i \in DOMAIN state_transitions :
            /\ state_transitions[i].entity_type = "change_order"
            /\ state_transitions[i].entity_id = co
            /\ state_transitions[i].to_status = "signed"}) <= 1
     /\ Cardinality({r \in DOMAIN requests :
            /\ requests[r].kind = "sign"
            /\ requests[r].target = co
            /\ requests[r].pc = "ended"
            /\ requests[r].result = 200}) <= 1

\* ------------------------------------------- the contractor's endpoints
ItemKinds == {"add_item", "update_item", "delete_item"}
ContractorKinds == {"get_ce", "update", "get_co", "generate_pdf", "send"} \cup ItemKinds
\* total_cost of a line item: quantity * unit_cost of the request body
Costs == {1, 2}

\* the access check without the comparison of the project's contractor
VerifyAccessAnyone(table, id, contractor_id) ==
  /\ id \in DOMAIN table
  /\ table[id].project_id # None

\* _verify_change_event_access, _verify_co_access: the row joined with its
\* project exists and the project's contractor is the caller. Where it is
\* false the handler raises 404 "not found", the same in both cases.
VerifyAccess(table, id, contractor_id) ==
  /\ id \in DOMAIN table
  /\ table[id].project_id # None
  /\ Owner(table[id].project_id) = contractor_id

\* A request of one of these endpoints that was answered: the caller, the
\* target and the answer are kept.
Done(req, code) ==
  [req EXCEPT !.pc = "ended", !.result = code, !.seen = None, !.num = 0]

FirstStep(kind) ==
  CASE kind = "get_ce" -> "get_ce"
    [] kind = "update" -> "edit_check"
    [] kind = "get_co" -> "get_co"
    [] kind = "generate_pdf" -> "pdf_check"
    [] kind = "send" -> "send_check"
    [] kind \in ItemKinds -> "item_check"

\* A contractor's request arrives; the id in the path may be that of no row.
\* An item id is part of the path of update_item and delete_item only.
ArriveContractor(kind, who, target, item) ==
  /\ Len(requests) < MaxReq
  /\ Cardinality({r \in DOMAIN requests : requests[r].pc # "ended"}) < MaxInFlight
  /\ kind \in ContractorKinds
  /\ who \in Contractors
  /\ IF kind \in {"update_item", "delete_item"} THEN item > 0 ELSE item = 0
  /\ LET table == IF kind \in {"get_ce", "update"} THEN change_events
                  ELSE change_orders
     IN requests' = Append(requests,
          [NewRequest(kind, who, target, BadToken, FirstStep(kind),
                      StatusOf(table, target)) EXCEPT !.item = item])
  /\ UNCHANGED <<db, tasks, triggered, apart>>

\* get_change_event: the access check, then the row is returned.
GetChangeEvent(r) ==
  /\ At(r, {"get_ce"}, "get_ce")
  /\ LET req == requests[r]
     IN SetReq(r, IF VerifyAccess(change_events, req.target, req.who)
                  THEN Done(req, 200) ELSE Done(req, 404))
  /\ UNCHANGED <<db, tasks, triggered, apart>>

\* get_change_order: the access check, then the order and its items are read.
GetChangeOrder(r) ==
  /\ At(r, {"get_co"}, "get_co")
  /\ LET req == requests[r]
     IN SetReq(r, IF VerifyAccess(change_orders, req.target, req.who)
                  THEN Done(req, 200) ELSE Done(req, 404))
  /\ UNCHANGED <<db, tasks, triggered, apart>>

\* add_item, update_item, delete_item: the access check, then the status
\* check on the row the access check read.
ItemCheck(r) ==
  /\ At(r, ItemKinds, "item_check")
  /\ LET req == requests[r]
     IN SetReq(r,
          IF ~VerifyAccess(change_orders, req.target, req.who) THEN Done(req, 404)
          ELSE IF change_orders[req.target].status = "signed" THEN Done(req, 409)
          ELSE [req EXCEPT !.pc = CASE req.kind = "add_item" -> "item_insert"
                                    [] req.kind = "update_item" -> "item_fetch"
                                    [] req.kind = "delete_item" -> "item_delete"])
  /\ UNCHANGED <<db, tasks, triggered, apart>>

\* add_item: insert the line item with its total_cost.
ItemInsert(r, cost) ==
  /\ At(r, {"add_item"}, "item_insert")
  /\ change_order_items' = change_order_items \cup
        {[id |-> NextItemId, change_order_id |-> requests[r].target,
          change_event_id |-> 0, total_cost |-> cost]}
  /\ SetReq(r, [requests[r] EXCEPT !.wrote = TRUE, !.pc = "totals_read"])
  /\ UNCHANGED <<ingest_events, change_events, change_event_sources, state_transitions,
                 notifications, change_orders, tasks, triggered, apart>>

\* the rows of change_order_items with this id in this change order
ItemRows(id, change_order_id) ==
  {i \in change_order_items : i.id = id /\ i.change_order_id = change_order_id}

\* update_item: fetch the current item; 404 when the order has no such item.
ItemFetch(r) ==
  /\ At(r, {"update_item"}, "item_fetch")
  /\ LET req == requests[r]
     IN SetReq(r, IF ItemRows(req.item, req.target) = {} THEN Done(req, 404)
                  ELSE [req EXCEPT !.pc = "item_update"])
  /\ UNCHANGED <<db, tasks, triggered, apart>>

\* update_item: write the fields and the recomputed total_cost. The handler
\* returns the first updated row after the totals, so it fails there when
\* the update matched no row.
ItemUpdate(r, cost) ==
  /\ At(r, {"update_item"}, "item_update")
  /\ LET req == requests[r]
     IN /\ change_order_items' =
             {IF i \in ItemRows(req.item, req.target)
              THEN [i EXCEPT !.total_cost = cost] ELSE i : i \in change_order_items}
        /\ SetReq(r, [req EXCEPT !.wrote = TRUE, !.pc = "totals_read",
                        !.seen = IF ItemRows(req.item, req.target) = {}
                                 THEN "no_row" ELSE None])
  /\ UNCHANGED <<ingest_events, change_events, change_event_sources, state_transitions,
                 notifications, change_orders, tasks, triggered, apart>>

\* delete_item: delete the item of this order with this id, if any.
ItemDelete(r) ==
  /\ At(r, {"delete_item"}, "item_delete")
  /\ change_order_items' =
        change_order_items \ ItemRows(requests[r].item, requests[r].target)
  /\ SetReq(r, [requests[r] EXCEPT !.wrote = TRUE, !.pc = "totals_read"])
  /\ UNCHANGED <<ingest_events, change_events, change_event_sources, state_transitions,
                 notifications, change_orders, tasks, triggered, apart>>

RECURSIVE SumCosts(_)
SumCosts(rows) ==
  IF rows = {} THEN 0
  ELSE LET i == CHOOSE x \in rows : TRUE
       IN i.total_cost + SumCosts(rows \ {i})

\* _recalculate_totals: read the items of the order and sum their total_cost.
TotalsRead(r) ==
  /\ At(r, ItemKinds, "totals_read")
  /\ SetReq(r, [requests[r] EXCEPT
        !.num = SumCosts({i \in change_order_items :
                            i.change_order_id = requests[r].target}),
        !.pc = "totals_write"])
  /\ UNCHANGED <<db, tasks, triggered, apart>>

\* _recalculate_totals: write the totals computed from the subtotal; then
\* the handler answers (201 for add_item, 200 for update_item, 204 for
\* delete_item).
TotalsWrite(r) ==
  /\ At(r, ItemKinds, "totals_write")
  /\ LET req == requests[r]
     IN /\ change_orders' = [change_orders EXCEPT ![req.target].subtotal = req.num]
        /\ SetReq(r, Done(req, CASE req.kind = "add_item" -> 201
                                 [] req.kind = "delete_item" -> 204
                                 [] req.seen = "no_row" -> 500
                                 [] OTHER -> 200))
  /\ UNCHANGED <<ingest_events, change_events, change_event_sources, state_transitions,
                 notifications, change_order_items, tasks, triggered, apart>>

\* generate_pdf: the access check.
PdfCheck(r) ==
  /\ At(r, {"generate_pdf"}, "pdf_check")
  /\ LET req == requests[r]
     IN SetReq(r, IF VerifyAccess(change_orders, req.target, req.who)
                  THEN [req EXCEPT !.pc = "pdf_read"] ELSE Done(req, 404))
  /\ UNCHANGED <<db, tasks, triggered, apart>>

\* generate_change_order_pdf: read the order, its items and the change
\* events of the project.
PdfRead(r) ==
  /\ At(r, {"generate_pdf"}, "pdf_read")
  /\ SetReq(r, [requests[r] EXCEPT
        !.seen = change_orders[requests[r].target].status, !.pc = "pdf_store"])
  /\ UNCHANGED <<db, tasks, triggered, apart>>

\* generate_change_order_pdf: render and upload the file, then write
\* pdf_url; when rendering or the upload fails the handler answers 500.
PdfStore(r, uploaded) ==
  /\ At(r, {"generate_pdf"}, "pdf_store")
  /\ IF uploaded
     THEN /\ change_orders' = [change_orders EXCEPT ![requests[r].target].pdf_url = TRUE]
          /\ SetReq(r, [requests[r] EXCEPT !.wrote = TRUE, !.pc = "pdf_record"])
     ELSE /\ SetReq(r, Done(requests[r], 500))
          /\ UNCHANGED change_orders
  /\ UNCHANGED <<ingest_events, change_events, change_event_sources, state_transitions,
                 notifications, change_order_items, tasks, triggered, apart>>

\* generate_change_order_pdf: record the generation as a transition
\* status -> status of the order (actor system); answer.
PdfRecord(r) ==
  /\ At(r, {"generate_pdf"}, "pdf_record")
  /\ state_transitions' = Append(state_transitions,
        Transition("change_order", requests[r].target, requests[r].seen,
                   requests[r].seen, "system"))
  /\ SetReq(r, Done(requests[r], 200))
  /\ UNCHANGED <<ingest_events, change_events, change_event_sources,
                 notifications, change_orders, change_order_items, tasks, triggered, apart>>

\* One run of the pipeline proposed two change events; the first was
\* confirmed, which created its draft change order with one line item, the
\* second is still proposed.
InitDraft ==
  /\ ingest_events =
       <<[project_id |-> "p1", processing_status |-> "completed", error_message |-> 0]>>
  /\ change_events =
       <<[project_id |-> "p1", status |-> "confirmed", confidence_score |-> 70,
          confirmed_at |-> TRUE, rejected_at |-> FALSE, edited |-> FALSE,
          made_by |-> "ai", src_ie |-> 1],
         [project_id |-> "p1", status |-> "proposed", confidence_score |-> 70,
          confirmed_at |-> FALSE, rejected_at |-> FALSE, edited |-> FALSE,
          made_by |-> "ai", src_ie |-> 1]>>
  /\ change_event_sources = {[change_event_id |-> 1, ingest_event_id |-> 1],
                             [change_event_id |-> 2, ingest_event_id |-> 1]}
  /\ state_transitions =
       <<Transition("change_event", 1, None, "proposed", "ai"),
         Transition("change_event", 2, None, "proposed", "ai"),
         Transition("change_event", 1, "proposed", "confirmed", "contractor"),
         Transition("change_order", 1, None, "draft", "system")>>
  /\ notifications =
       <<[TokenRow(1, 0, "confirm") EXCEPT !.used_at = TRUE, !.marks = 1],
         TokenRow(1, 0, "reject"), TokenRow(2, 0, "confirm"), TokenRow(2, 0, "reject")>>
  /\ change_orders =
       <<[project_id |-> "p1", status |-> "draft", order_number |-> 1,
          signed_at |-> FALSE, subtotal |-> 0, pdf_url |-> FALSE]>>
  /\ change_order_items =
       {[id |-> 1, change_order_id |-> 1, change_event_id |-> 1, total_cost |-> 0]}
  /\ tasks = <<Ended(NewTask(1), "done")>>
  /\ requests = <<>>
  /\ triggered = <<1, 2>>
  /\ dedup = NoCall
  /\ resolver = <<>>
  /\ polls = <<>>
  /\ vision = NoImages
  /\ cosine = NoPair
  /\ limiter = NoTraffic

\* The contractors' requests on the change events and the draft change
\* order, one at a time, by the owner c1 and by c2, who owns no project;
\* ids one past the last row are ids of no row.
NextContractor ==
  \/ \E kind \in ContractorKinds, who \in Contractors,
        target \in 1..(Len(change_events) + 1), item \in 0..2 :
        /\ NoneInFlight
        /\ kind \notin {"get_ce", "update"} => target <= Len(change_orders) + 1
        /\ ArriveContractor(kind, who, target, item)
  \/ \E r \in DOMAIN requests : GetChangeEvent(r)
  \/ \E r \in DOMAIN requests : EditCheck(r)
  \/ \E r \in DOMAIN requests : EditWrite(r)
  \/ \E r \in DOMAIN requests : EditRecord(r)
  \/ \E r \in DOMAIN requests : GetChangeOrder(r)
  \/ \E r \in DOMAIN requests : ItemCheck(r)
  \/ \E r \in DOMAIN requests, cost \in Costs : ItemInsert(r, cost)
  \/ \E r \in DOMAIN requests : ItemFetch(r)
  \/ \E r \in DOMAIN requests, cost \in Costs : ItemUpdate(r, cost)
  \/ \E r \in DOMAIN requests : ItemDelete(r)
  \/ \E r \in DOMAIN requests : TotalsRead(r)
  \/ \E r \in DOMAIN requests : TotalsWrite(r)
  \/ \E r \in DOMAIN requests : PdfCheck(r)
  \/ \E r \in DOMAIN requests : PdfRead(r)
  \/ \E r \in DOMAIN requests, uploaded \in BOOLEAN : PdfStore(r, uploaded)
  \/ \E r \in DOMAIN requests : PdfRecord(r)
  \/ \E r \in DOMAIN requests : SendCheck(r)
  \/ \E r \in DOMAIN requests : StoreSignToken(r)
  \/ \E r \in DOMAIN requests : MarkSent(r)
  \/ \E r \in DOMAIN requests : RecordSent(r)

SpecContractor == InitDraft /\ [][NextContractor]_vars

\* the caller of the request owns the project of the row the request names
OwnsTarget(req) ==
  LET table == IF req.kind \in {"get_ce", "update"} THEN change_events
               ELSE change_orders
  IN /\ req.target \in DOMAIN table
     /\ \E p \in Projects : table[req.target].project_id = p /\ Owner(p) = req.who

\* C30: a contractor's request (get, update, add, update or delete item,
\* generate-pdf, send) on a change event or change order of a project the
\* caller does not own is refused at its first step with 404, no table
\* changes at that step, and a request naming no row is answered the same.
C30_NonOwnerRefused ==
  [][\A r \in DOMAIN requests :
        (/\ requests[r].kind \in ContractorKinds
         /\ requests[r].pc # "ended"
         /\ requests'[r] # requests[r]
         /\ ~OwnsTarget(requests[r]))
        => /\ UNCHANGED db
           /\ requests'[r].pc = "ended"
           /\ requests'[r].result = 404
           /\ requests[r].pc = FirstStep(requests[r].kind)]_vars

\* c2 asked to add an item to the draft order of c1's project and was
\* answered 404, c1 asked the same and the item was added (201); the order
\* holds one item more than before, not two.
C30_Witness ==
  \E r, s \in DOMAIN requests :
     /\ requests[r].kind = "add_item" /\ requests[s].kind = "add_item"
     /\ requests[r].pc = "ended" /\ requests[s].pc = "ended"
     /\ requests[r].who = "c2" /\ requests[s].who = "c1"
     /\ requests[r].target = 1 /\ requests[s].target = 1
     /\ requests[r].result = 404 /\ requests[s].result = 201
     /\ Cardinality(change_order_items) = 2

\* --------------------------------------------------- the vision agents
\* The text of a model response is a sequence of chunks: a code fence
\* (three backquotes, alone or followed by json) or the text between two
\* fences.
FenceJson == "<fence>json"
Fence == "<fence>"
Absent == "<absent>"
AList == "<list>"
\* a JSON string where a number is expected
NotNumber == -2

RECURSIVE UpToFence(_)
\* text.split(fence)[0]: the chunks before the first fence of either kind
UpToFence(text) ==
  IF text = <<>> \/ Head(text) \in {Fence, FenceJson} THEN <<>>
  ELSE <<Head(text)>> \o UpToFence(Tail(text))

RECURSIVE After(_, _)
\* text.split(mark)[1], for a mark that occurs in the text
After(text, mark) ==
  IF Head(text) = mark THEN Tail(text) ELSE After(Tail(text), mark)

\* "Extract JSON from response": the text inside the first json block,
\* else inside the first fenced block, else the whole text
StripFences(raw_text) ==
  IF \E i \in DOMAIN raw_text : raw_text[i] = FenceJson
  THEN UpToFence(After(raw_text, FenceJson))
  ELSE IF \E i \in DOMAIN raw_text : raw_text[i] = Fence
       THEN UpToFence(After(raw_text, Fence))
       ELSE raw_text

\* What json.loads gives: json says whether the text is JSON and of which
\* kind; of an object the keys type, confidence and changes (Absent, Missing:
\* no such key; has_changes "null": the key holds null).
Value(json, type, confidence, has_changes, changes) ==
  [json |-> json, type |-> type, confidence |-> confidence,
   has_changes |-> has_changes, changes |-> changes]
Invalid == Value("invalid", Absent, Missing, Absent, <<>>)
Typed(type, confidence) == Value("object", type, confidence, Absent, <<>>)
Listing(changes) == Value("object", Absent, Missing, "list", changes)
Change(flag, confidence) ==
  [json |-> "object", is_change_event |-> flag, confidence |-> confidence,
   description |-> <<"w">>]
NoObject == [json |-> "string", is_change_event |-> "missing",
             confidence |-> Missing, description |-> <<"w">>]

\* json.loads on the texts the model is run with; any other text is not JSON
JsonText(text) ==
  CASE text = "{\"type\": \"annotated_plan\", \"confidence\": 0.9}"
         -> Typed("annotated_plan", 90)
    [] text = "{\"type\": \"reference_image\", \"confidence\": 0.9}"
         -> Typed("reference_image", 90)
    [] text = "{\"type\": \"field_photo\", \"confidence\": 0.9}"
         -> Typed("field_photo", 90)
    [] text = "{\"type\": \"document\", \"confidence\": 0.9}"
         -> Typed("document", 90)
    [] text = "{\"type\": \"other\", \"confidence\": 0.4}" -> Typed("other", 40)
    [] text = "{\"type\": \"blueprint\", \"confidence\": 0.9}"
         -> Typed("blueprint", 90)
    [] text = "{\"confidence\": 0.9}" -> Typed(Absent, 90)
    [] text = "{\"type\": \"field_photo\"}" -> Typed("field_photo", Missing)
    [] text = "{\"type\": [\"field_photo\"], \"confidence\": 0.9}"
         -> Typed(AList, 90)
    [] text = "{\"type\": \"field_photo\", \"confidence\": \"high\"}"
         -> Typed("field_photo", NotNumber)
    [] text = "[]" -> Value("array", Absent, Missing, Absent, <<>>)
    [] text = "{\"changes\": []}" -> Listing(<<>>)
    [] text = "{\"changes\": [{\"is_change_event\": true, \"confidence\": 0.7, \"description\": \"w\"}]}"
         -> Listing(<<Change("true", 70)>>)
    [] text = "{\"changes\": [{\"is_change_event\": false, \"confidence\": 0.7, \"description\": \"w\"}]}"
         -> Listing(<<Change("false", 70)>>)
    [] text = "{\"changes\": [{\"is_change_event\": true, \"confidence\": \"high\", \"description\": \"w\"}]}"
         -> Listing(<<Change("true", NotNumber)>>)
    [] text = "{\"changes\": [\"w\"]}" -> Listing(<<NoObject>>)
    [] text = "{\"changes\": null}"
         -> Value("object", Absent, Missing, "null", <<>>)
    [] text = "{\"summary\": \"nothing\"}"
         -> Value("object", Absent, Missing, Absent, <<>>)
    [] OTHER -> Invalid

\* json.loads(raw_text) after the fences are stripped: the empty text and
\* two texts in a row are not JSON
JsonLoads(payload) ==
  IF Len(payload) = 1 THEN JsonText(payload[1]) ELSE Invalid

\* What a call of an agent gave: calls counts the requests made to the model
\* (client.messages.create), raised names the exception that left the
\* function ("none": it returned).
Outcome(calls, raised, image_type, confidence, proposals, metadata) ==
  [calls |-> calls, raised |-> raised, image_type |-> image_type,
   confidence |-> confidence, proposals |-> proposals, metadata |-> metadata]

\* The metadata dict: Absent (for reason, the empty tuple) where it has no
\* such key; tokens_used and processing_time_ms are "0" or what was measured.
Meta(prompt_version, spent) ==
  [prompt_version |-> prompt_version, model_used |-> "claude-sonnet-4-5-20250514",
   tokens_used |-> spent, processing_time_ms |-> spent, skipped |-> Absent,
   reason |-> <<>>, error |-> Absent, image_type |-> Absent]
NoMeta ==
  [prompt_version |-> Absent, model_used |-> Absent, tokens_used |-> Absent,
   processing_time_ms |-> Absent, skipped |-> Absent, reason |-> <<>>,
   error |-> Absent, image_type |-> Absent]

Raises(error) == Outcome(1, error, Absent, Missing, <<>>, NoMeta)

valid_types == {"annotated_plan", "reference_image", "field_photo", "document", "other"}

\* classify_image, from the response text on: a text that is not JSON is
\* replaced by the default; parsed.get fails on JSON that is no object, the
\* membership test in the set of types on a list, and the :.2f of the log
\* line on a confidence that is no number.
classify_image(raw_text) ==
  LET loaded == JsonLoads(StripFences(raw_text))
      parsed == IF loaded.json = "invalid" THEN Typed("other", 0) ELSE loaded
  IN IF parsed.json # "object" THEN Raises("AttributeError")
     ELSE IF parsed.type = AList THEN Raises("TypeError")
     ELSE IF parsed.confidence = NotNumber THEN Raises("ValueError")
     ELSE Outcome(1, "none",
                  IF parsed.type \in valid_types THEN parsed.type ELSE "other",
                  IF parsed.confidence = Missing THEN 0 ELSE parsed.confidence,
                  <<>>, Meta("image_classification:v1", "measured"))

RECURSIVE LoopError(_)
\* the loop over the changes: the exception of the first item that raises
\* one (change.get on an item that is no object; the validation of
\* ChangeEventProposal on a confidence that is no number), "none" otherwise
LoopError(changes) ==
  IF changes = <<>> THEN "none"
  ELSE IF Head(changes).json # "object" THEN "AttributeError"
  ELSE IF IsChange(Head(changes)) /\ Head(changes).confidence = NotNumber
       THEN "ValidationError"
  ELSE LoopError(Tail(changes))

\* detect_changes_in_text and extract_changes_from_image, from the response
\* text on: a text that is not JSON gives no proposal and the error key;
\* parsed.get fails on JSON that is no object, the loop on null.
ChangesFrom(raw_text, prompt_version, image_type, phase) ==
  LET parsed == JsonLoads(StripFences(raw_text))
  IN IF parsed.json = "invalid"
     THEN Outcome(1, "none", Absent, Missing, <<>>,
                  [Meta(prompt_version, "measured") EXCEPT !.error = "JSON parse failed"])
     ELSE IF parsed.json # "object" THEN Raises("AttributeError")
     ELSE IF parsed.has_changes = "null" THEN Raises("TypeError")
     ELSE IF LoopError(parsed.changes) # "none" THEN Raises(LoopError(parsed.changes))
     ELSE Outcome(1, "none", Absent, Missing, Detect(parsed.changes, phase),
                  [Meta(prompt_version, "measured") EXCEPT !.image_type = image_type])

detect_changes_in_text(raw_text) ==
  ChangesFrom(raw_text, "text_detection:v1", Absent, 1)

\* A skip that lets documents through to the extraction.
SkippedOther(image_type) == image_type = "other"

\* if image_type in ("other", "document")
Skipped(image_type) == image_type \in {"other", "document"}

\* extract_changes_from_image: the skipped types return before the client is
\* made; reason is the f-string "image_type={image_type}" in its two parts.
extract_changes_from_image(image_type, raw_text, phase) ==
  IF Skipped(image_type)
  THEN Outcome(0, "none", Absent, Missing, <<>>,
               [Meta("visual_change:v1", "0") EXCEPT
                   !.skipped = "true", !.reason = <<"image_type=", image_type>>])
  ELSE ChangesFrom(raw_text, "visual_change:v1", image_type, phase)

\* The response texts the agents are run with.
ClassifierTexts ==
  {"I cannot classify this image.",
   "{\"type\": \"annotated_plan\", \"confidence\": 0.9}",
   "{\"type\": \"reference_image\", \"confidence\": 0.9}",
   "{\"type\": \"field_photo\", \"confidence\": 0.9}",
   "{\"type\": \"document\", \"confidence\": 0.9}",
   "{\"type\": \"other\", \"confidence\": 0.4}",
   "{\"type\": \"blueprint\", \"confidence\": 0.9}",
   "{\"confidence\": 0.9}",
   "{\"type\": \"field_photo\"}",
   "{\"type\": [\"field_photo\"], \"confidence\": 0.9}",
   "{\"type\": \"field_photo\", \"confidence\": \"high\"}",
   "[]"}
ClassifierAnswers ==
  {<<t>> : t \in ClassifierTexts} \cup
  {<<FenceJson, "{\"type\": \"document\", \"confidence\": 0.9}", Fence>>,
   <<"Here is the result:", Fence, "{\"type\": \"blueprint\", \"confidence\": 0.9}", Fence>>,
   <<FenceJson, Fence>>}
ChangeTexts ==
  {"No changes are visible.",
   "{\"changes\": []}",
   "{\"changes\": [{\"is_change_event\": true, \"confidence\": 0.7, \"description\": \"w\"}]}",
   "{\"changes\": [{\"is_change_event\": false, \"confidence\": 0.7, \"description\": \"w\"}]}",
   "{\"changes\": [{\"is_change_event\": true, \"confidence\": \"high\", \"description\": \"w\"}]}",
   "{\"changes\": [\"w\"]}",
   "{\"changes\": null}",
   "{\"summary\": \"nothing\"}",
   "[]"}
ChangeAnswers ==
  {<<t>> : t \in ChangeTexts} \cup
  {<<FenceJson, "{\"changes\": []}", Fence, "That is all.">>,
   <<Fence, "No changes are visible.", Fence>>}

\* images of one ingest event
MaxImages == 2
\* An image is an attachment of the message or embedded in a PDF attachment;
\* analyze_images runs before analyze_documents.
ImageLists ==
  {<<>>} \cup
  UNION {{[i \in 1..n |-> IF i <= k THEN "attachment" ELSE "pdf_embedded"] :
             k \in 0..n} : n \in 1..MaxImages}

InitVision ==
  /\ ingest_events = <<>>
  /\ change_events = <<>>
  /\ change_event_sources = {}
  /\ state_transitions = <<>>
  /\ notifications = <<>>
  /\ change_orders = <<>>
  /\ change_order_items = {}
  /\ tasks = <<>>
  /\ requests = <<>>
  /\ triggered = <<>>
  /\ dedup = NoCall
  /\ resolver = <<>>
  /\ polls = <<>>
  /\ vision \in {[NoImages EXCEPT !.images = images] : images \in ImageLists}
  /\ cosine = NoPair
  /\ limiter = NoTraffic

\* a call of an agent, as logged: image is the position of the image (0: the
\* text), given the image_type passed in and the response text read
Called(fn, image, given, raw_text, out) ==
  [fn |-> fn, image |-> image, given |-> given, raw_text |-> raw_text, out |-> out]

\* analyze_text: the text detector on the message text, before any image.
AnalyzeText(raw_text) ==
  /\ vision.log = <<>>
  /\ vision' = [vision EXCEPT !.log =
        <<Called("detect_changes_in_text", 0, Absent, raw_text,
                 detect_changes_in_text(raw_text))>>]
  /\ UNCHANGED <<db, tasks, requests, triggered, dedup, resolver, polls,
                 cosine, limiter>>

\* the image the loops are at: the one last classified, or 0
ImageAt == Cardinality({i \in DOMAIN vision.log : vision.log[i].fn = "classify_image"})

\* the pipeline is between two images: nothing was classified yet, or the
\* last classification raised (caught by the except of the loop), or the
\* extraction of the last image was called
BetweenImages ==
  IF vision.log = <<>> THEN TRUE
  ELSE LET last == vision.log[Len(vision.log)]
       IN \/ last.fn # "classify_image"
          \/ last.out.raised # "none"

\* analyze_images, analyze_documents: classify the next image.
ClassifyImage(raw_text) ==
  /\ BetweenImages
  /\ ImageAt < Len(vision.images)
  /\ vision' = [vision EXCEPT !.log = Append(@,
        Called("classify_image", ImageAt + 1, Absent, raw_text,
               classify_image(raw_text)))]
  /\ UNCHANGED <<db, tasks, requests, triggered, dedup, resolver, polls,
                 cosine, limiter>>

\* analyze_images, analyze_documents: call extract_changes_from_image with
\* the image_type of the classification; no response is read when the
\* function makes no request.
ExtractChanges(raw_text) ==
  /\ ~BetweenImages
  /\ LET last == vision.log[Len(vision.log)]
         out == extract_changes_from_image(last.out.image_type, raw_text,
                   IF vision.images[last.image] = "attachment" THEN 2 ELSE 3)
     IN vision' = [vision EXCEPT !.log = Append(@,
           Called("extract_changes_from_image", last.image, last.out.image_type,
                  IF out.calls = 0 THEN <<>> ELSE raw_text, out))]
  /\ UNCHANGED <<db, tasks, requests, triggered, dedup, resolver, polls,
                 cosine, limiter>>

NextVision ==
  \/ \E raw_text \in ChangeAnswers : AnalyzeText(raw_text)
  \/ \E raw_text \in ClassifierAnswers : ClassifyImage(raw_text)
  \/ \E raw_text \in ChangeAnswers : ExtractChanges(raw_text)

SpecVision == InitVision /\ [][NextVision]_vars

\* the calls logged for the image at position n
CallsFor(n) == {i \in DOMAIN vision.log : vision.log[i].image = n}

\* C31: extract_changes_from_image called with image_type other or document
\* returns no proposal, metadata with skipped true and the reason naming the
\* type, and makes no request to the model; an image classified other or
\* document costs one classification request and no extraction request.
C31_SkippedTypesCostNothing ==
  /\ \A i \in DOMAIN vision.log :
        LET c == vision.log[i]
        IN (c.fn = "extract_changes_from_image" /\ c.given \in {"other", "document"})
           => /\ c.out.raised = "none"
              /\ c.out.proposals = <<>>
              /\ c.out.metadata.skipped = "true"
              /\ c.out.metadata.reason = <<"image_type=", c.given>>
              /\ c.out.calls = 0
  /\ \A n \in DOMAIN vision.images :
        (\E i, j \in CallsFor(n) :
            /\ vision.log[i].fn = "classify_image"
            /\ vision.log[i].out.raised = "none"
            /\ vision.log[i].out.image_type \in {"other", "document"}
            /\ vision.log[j].fn = "extract_changes_from_image")
        => /\ Cardinality({i \in CallsFor(n) :
                  vision.log[i].fn = "classify_image"}) = 1
           /\ \A i \in CallsFor(n) :
                 vision.log[i].out.calls =
                    (IF vision.log[i].fn = "classify_image" THEN 1 ELSE 0)

\* C31, reached: an image embedded in a PDF was classified document by a
\* fenced answer and the extraction was called and skipped it; an
\* attachment classified field_photo cost an extraction request.
C31_Witness ==
  /\ \E i \in DOMAIN vision.log :
        /\ vision.log[i].fn = "extract_changes_from_image"
        /\ vision.log[i].given = "document"
        /\ vision.images[vision.log[i].image] = "pdf_embedded"
        /\ vision.log[i].out.metadata.skipped = "true"
        /\ vision.log[i].out.calls = 0
  /\ \E i \in DOMAIN vision.log :
        /\ vision.log[i].fn = "extract_changes_from_image"
        /\ vision.log[i].given = "field_photo"
        /\ vision.log[i].out.calls = 1

\* C32: classify_image is total: whatever the response text, it returns one
\* of the five types and does not raise; a text that is not JSON gives other
\* with confidence 0.0, a type outside the five or no type gives other; and
\* no extraction request follows a malformed classification.
C32_ClassifierTotal ==
  \A i \in DOMAIN vision.log :
     LET c == vision.log[i]
         read == JsonLoads(StripFences(c.raw_text))
     IN /\ c.fn = "classify_image"
           => /\ c.out.raised = "none"
              /\ c.out.image_type \in
                    {"annotated_plan", "reference_image", "field_photo",
                     "document", "other"}
              /\ read.json = "invalid"
                    => c.out.image_type = "other" /\ c.out.confidence = 0
              /\ read.type \notin
                    {"annotated_plan", "reference_image", "field_photo", "document"}
                    => c.out.image_type = "other"
        /\ (/\ c.fn = "classify_image"
            /\ i < Len(vision.log)
            /\ vision.log[i + 1].fn = "extract_changes_from_image"
            /\ read.type \notin
                  {"annotated_plan", "reference_image", "field_photo", "document"})
           => vision.log[i + 1].out.calls = 0

\* the response is malformed for the change agents: not JSON, JSON that is
\* no object with a list of changes, or an item that is no object or
\* carries an invalid value
MalformedChanges(raw_text) ==
  LET read == JsonLoads(StripFences(raw_text))
  IN \/ read.json # "object"
     \/ read.has_changes # "list"
     \/ \E k \in DOMAIN read.changes :
           \/ read.changes[k].json # "object"
           \/ read.changes[k].confidence = NotNumber

\* C33: on a malformed response detect_changes_in_text and
\* extract_changes_from_image return no proposal and metadata with the keys
\* error, prompt_version, model_used, tokens_used and processing_time_ms,
\* and do not raise.
C33_MalformedGivesErrorMetadata ==
  \A i \in DOMAIN vision.log :
     LET c == vision.log[i]
     IN (/\ c.fn \in {"detect_changes_in_text", "extract_changes_from_image"}
         /\ c.out.calls = 1
         /\ MalformedChanges(c.raw_text))
        => /\ c.out.raised = "none"
           /\ c.out.proposals = <<>>
           /\ c.out.metadata.error # Absent
           /\ c.out.metadata.prompt_version # Absent
           /\ c.out.metadata.model_used # Absent
           /\ c.out.metadata.tokens_used # Absent
           /\ c.out.metadata.processing_time_ms # Absent

\* ---------------------------------------------------- cosine_similarity
\* dimensions of an embedding
MaxDim == 2
Components == {-1, 0, 2}
Vectors == UNION {[1..n -> Components] : n \in 0..MaxDim}

RECURSIVE Dot(_, _)
\* sum(a * b for a, b in zip(vec_a, vec_b)): zip stops at the shorter one
Dot(vec_a, vec_b) ==
  IF vec_a = <<>> \/ vec_b = <<>> THEN 0
  ELSE Head(vec_a) * Head(vec_b) + Dot(Tail(vec_a), Tail(vec_b))

\* dot / (norm_a * norm_b) for norms that are not zero, in hundred-thousandths
\* and cut to three decimals: the r with r/1000 <= |dot| / sqrt(sq) < (r+1)/1000,
\* where sq = norm_a^2 * norm_b^2, with the sign of dot
Quotient(dot, sq) ==
  LET r == CHOOSE x \in 0..1000 :
              /\ x * x * sq <= 1000000 * dot * dot
              /\ (x + 1) * (x + 1) * sq > 1000000 * dot * dot
  IN IF dot < 0 THEN 0 - 100 * r ELSE 100 * r

\* What a call gave: the exception that left it ("none": it returned) and
\* the value returned.
Returns(value) == [raised |-> "none", value |-> value]

\* cosine_similarity without the test on the norms: it divides by their
\* product
cosine_similarity_unguarded(vec_a, vec_b) ==
  IF vec_a = <<>> \/ vec_b = <<>> \/ Len(vec_a) # Len(vec_b) THEN Returns(0)
  ELSE IF Dot(vec_a, vec_a) * Dot(vec_b, vec_b) = 0
       THEN [raised |-> "ZeroDivisionError", value |-> 0]
       ELSE Returns(Quotient(Dot(vec_a, vec_b), Dot(vec_a, vec_a) * Dot(vec_b, vec_b)))

\* cosine_similarity: a norm is zero exactly when the sum of the squares is
cosine_similarity(vec_a, vec_b) ==
  IF vec_a = <<>> \/ vec_b = <<>> \/ Len(vec_a) # Len(vec_b) THEN Returns(0)
  ELSE IF Dot(vec_a, vec_a) = 0 \/ Dot(vec_b, vec_b) = 0 THEN Returns(0)
       ELSE Returns(Quotient(Dot(vec_a, vec_b), Dot(vec_a, vec_a) * Dot(vec_b, vec_b)))

\* find_similar_change_events on one stored event: no result without an
\* embedding of the new description, a stored event without embedding is
\* passed over, a similarity below POSSIBLE_DUP_THRESHOLD gives no entry.
Related(new_embedding, embedding) ==
  IF new_embedding = <<>> \/ embedding = <<>> THEN "unrelated"
  ELSE LET sim == cosine_similarity(new_embedding, embedding)
       IN IF sim.raised # "none" THEN "raised"
          ELSE IF sim.value < POSSIBLE_DUP_THRESHOLD THEN "unrelated"
          ELSE IF sim.value >= DUPLICATE_THRESHOLD THEN "duplicate"
          ELSE "possible_duplicate"

InitCosine ==
  /\ ingest_events = <<>>
  /\ change_events = <<>>
  /\ change_event_sources = {}
  /\ state_transitions = <<>>
  /\ notifications = <<>>
  /\ change_orders = <<>>
  /\ change_order_items = {}
  /\ tasks = <<>>
  /\ requests = <<>>
  /\ triggered = <<>>
  /\ dedup = NoCall
  /\ resolver = <<>>
  /\ polls = <<>>
  /\ vision = NoImages
  /\ cosine \in {[NoPair EXCEPT !.vec_a = a, !.vec_b = b] : a, b \in Vectors}
  /\ limiter = NoTraffic

\* cosine_similarity on the pair, and what the resolver makes of the pair
Compare ==
  /\ ~cosine.ran
  /\ cosine' = [cosine EXCEPT
        !.ran = TRUE,
        !.raised = cosine_similarity(cosine.vec_a, cosine.vec_b).raised,
        !.sim = cosine_similarity(cosine.vec_a, cosine.vec_b).value,
        !.verdict = Related(cosine.vec_a, cosine.vec_b)]
  /\ UNCHANGED <<db, tasks, requests, triggered, dedup, resolver, polls,
                 vision, limiter>>

NextCosine ==
  \/ Compare

SpecCosine == InitCosine /\ [][NextCosine]_vars

\* every component of the vector is zero
ZeroVector(vec) == \A i \in DOMAIN vec : vec[i] = 0

\* C34: cosine_similarity returns exactly 0.0 and does not raise when a
\* vector is empty, the lengths differ or a vector has norm zero; the
\* resolver then takes the pair for unrelated.
C34_DegenerateIsZero ==
  (/\ cosine.ran
   /\ \/ Len(cosine.vec_a) # Len(cosine.vec_b)
      \/ ZeroVector(cosine.vec_a)
      \/ ZeroVector(cosine.vec_b))
  => /\ cosine.raised = "none"
     /\ cosine.sim = 0
     /\ cosine.verdict = "unrelated"

\* C34, reached: the call on a zero vector and a vector of the same
\* dimension that is not zero returned 0.
C34_Witness ==
  /\ cosine.ran
  /\ cosine.vec_a = <<0, 0>>
  /\ cosine.vec_b = <<2, -1>>
  /\ cosine.sim = 0
  /\ cosine.verdict = "unrelated"

\* ------------------------------------------ signing and the other events
\* the change event is linked to the change order through a line item
LinkedByItem(ce, co) ==
  \E i \in change_order_items : i.change_order_id = co /\ i.change_event_id = ce

\* C35: signing a change order moves to signed only the change events linked
\* to it through its line items, each from confirmed; any other change event
\* keeps its status and gets no transition.
C35_OnlyLinkedEventsSigned ==
  [][/\ \A ce \in DOMAIN change_events :
           (change_events'[ce].status = "signed" /\ change_events[ce].status # "signed")
           => /\ change_events[ce].status = "confirmed"
              /\ \E r \in DOMAIN requests :
                    /\ requests[r].kind = "sign"
                    /\ requests'[r] # requests[r]
                    /\ LinkedByItem(ce, requests[r].target)
     /\ Len(state_transitions') > Len(state_transitions)
        => LET tr == state_transitions'[Len(state_transitions')]
           IN (tr.entity_type = "change_event" /\ tr.to_status = "signed")
              => /\ tr.from_status = "confirmed"
                 /\ \E r \in DOMAIN requests :
                       /\ requests[r].kind = "sign"
                       /\ requests'[r] # requests[r]
                       /\ LinkedByItem(tr.entity_id, requests[r].target)]_vars

\* ------------------------------------------- action tokens and failures
\* One run of the pipeline proposed two change events; the first was
\* confirmed and its change order sent to the client, the second is still
\* proposed: a confirm, a reject and a sign token are open.
InitTokens ==
  /\ ingest_events =
       <<[project_id |-> "p1", processing_status |-> "completed", error_message |-> 0]>>
  /\ change_events =
       <<[project_id |-> "p1", status |-> "confirmed", confidence_score |-> 70,
          confirmed_at |-> TRUE, rejected_at |-> FALSE, edited |-> FALSE,
          made_by |-> "ai", src_ie |-> 1],
         [project_id |-> "p1", status |-> "proposed", confidence_score |-> 70,
          confirmed_at |-> FALSE, rejected_at |-> FALSE, edited |-> FALSE,
          made_by |-> "ai", src_ie |-> 1]>>
  /\ change_event_sources = {[change_event_id |-> 1, ingest_event_id |-> 1],
                             [change_event_id |-> 2, ingest_event_id |-> 1]}
  /\ state_transitions =
       <<Transition("change_event", 1, None, "proposed", "ai"),
         Transition("change_event", 2, None, "proposed", "ai"),
         Transition("change_event", 1, "proposed", "confirmed", "contractor"),
         Transition("change_order", 1, None, "draft", "system"),
         Transition("change_order", 1, "draft", "sent_to_client", "contractor")>>
  /\ notifications =
       <<[TokenRow(1, 0, "confirm") EXCEPT !.used_at = TRUE, !.marks = 1],
         TokenRow(1, 0, "reject"), TokenRow(2, 0, "confirm"), TokenRow(2, 0, "reject"),
         TokenRow(0, 1, "sign")>>
  /\ change_orders =
       <<[project_id |-> "p1", status |-> "sent_to_client", order_number |-> 1,
          signed_at |-> FALSE, subtotal |-> 0, pdf_url |-> FALSE]>>
  /\ change_order_items =
       {[id |-> 1, change_order_id |-> 1, change_event_id |-> 1, total_cost |-> 0]}
  /\ tasks = <<Ended(NewTask(1), "done")>>
  /\ requests = <<>>
  /\ triggered = <<1, 2>>
  /\ dedup = NoCall
  /\ resolver = <<>>
  /\ polls = <<>>
  /\ vision = NoImages
  /\ cosine = NoPair
  /\ limiter = NoTraffic

\* The statements of the three token endpoints that write to the database,
\* by the position of the request that is about to run them.
WritingSteps == {"mark", "update", "record", "sign_update", "sign_record"}

\* A write of a token endpoint raises (the database refuses or is out of
\* reach): no handler catches it, the request is answered 500 and whatever
\* it wrote before stays.
WriteRaises(r) ==
  /\ At(r, TokenKinds, requests[r].pc)
  /\ requests[r].pc \in WritingSteps
  /\ SetReq(r, Answer(requests[r], 500))
  /\ UNCHANGED <<db, tasks, triggered, apart>>

\* Confirm, reject and sign requests, one at a time, over a database whose
\* writes may fail.
NextTokens ==
  \/ \E kind \in TokenKinds, target \in 1..MaxCE, token \in 0..5 :
        NoneInFlight /\ Arrive(kind, None, target, token)
  \/ \E r \in DOMAIN requests : Verify(r)
  \/ \E r \in DOMAIN requests : ReadChangeEvent(r)
  \/ \E r \in DOMAIN requests : MarkTokenUsed(r)
  \/ \E r \in DOMAIN requests : UpdateStatus(r)
  \/ \E r \in DOMAIN requests : RecordTransition(r)
  \/ \E r \in DOMAIN requests : CountOrders(r)
  \/ \E r \in DOMAIN requests : InsertOrder(r)
  \/ \E r \in DOMAIN requests : InsertItem(r)
  \/ \E r \in DOMAIN requests : InsertOrderTransition(r)
  \/ \E r \in DOMAIN requests : SignRead(r)
  \/ \E r \in DOMAIN requests : SignOrder(r)
  \/ \E r \in DOMAIN requests : RecordSign(r)
  \/ \E r \in DOMAIN requests : SelectLinked(r)
  \/ \E r \in DOMAIN requests : SignChangeEvent(r)
  \/ \E r \in DOMAIN requests : RecordSigned(r)
  \/ \E r \in DOMAIN requests : WriteRaises(r)

SpecTokens == InitTokens /\ [][NextTokens]_vars

\* the transition of the token's action is in the log
ActionRecorded(row) ==
  \E i \in DOMAIN state_transitions :
     LET tr == state_transitions[i]
     IN IF row.action = "sign"
        THEN /\ tr.entity_type = "change_order"
             /\ tr.entity_id = row.change_order_id
             /\ tr.to_status = "signed"
        ELSE /\ tr.entity_type = "change_event"
             /\ tr.entity_id = row.change_event_id
             /\ tr.to_status = (IF row.action = "confirm" THEN "confirmed"
                                ELSE "rejected")

\* the status of the token's action was written on its row
ActionApplied(row) ==
  IF row.action = "sign" THEN change_orders[row.change_order_id].signed_at
  ELSE IF row.action = "confirm" THEN change_events[row.change_event_id].confirmed_at
  ELSE change_events[row.change_event_id].rejected_at

\* C36: once every request was answered, a token is marked used if and only
\* if the transition of its action was applied and recorded: a request that
\* failed has not used up its token, one that succeeded has.
C36_TokenUsedIffApplied ==
  NoneInFlight =>
    \A n \in DOMAIN notifications :
       notifications[n].used_at
         <=> (ActionApplied(notifications[n]) /\ ActionRecorded(notifications[n]))

\* ------------------------------------------- order numbers of a project
\* the change orders whose line item references the change event
OrdersFor(ce) ==
  {co \in DOMAIN change_orders :
      \E i \in change_order_items : i.change_order_id = co /\ i.change_event_id = ce}

\* the transitions None -> draft (actor system) recorded for the change order
Drafted(co) ==
  {i \in DOMAIN state_transitions :
      /\ state_transitions[i].entity_type = "change_order"
      /\ state_transitions[i].entity_id = co
      /\ state_transitions[i].from_status = None
      /\ state_transitions[i].to_status = "draft"
      /\ state_transitions[i].actor_type = "system"}

\* C37: every confirmation answered 200 left one change order of its own,
\* with one line item (of the confirmed event) and one transition None ->
\* draft, and the order numbers of one project (the year being the same) are
\* pairwise distinct, also when two confirmations overlap.
C37_OneOrderDistinctNumbers ==
  /\ NoneInFlight =>
       /\ Len(change_orders)
            = Cardinality({r \in DOMAIN requests :
                 requests[r].kind = "confirm" /\ requests[r].result = 200})
       /\ \A r \in DOMAIN requests :
             (requests[r].kind = "confirm" /\ requests[r].result = 200)
             => OrdersFor(requests[r].target) # {}
       /\ \A co \in DOMAIN change_orders :
             /\ Cardinality({i \in change_order_items : i.change_order_id = co}) = 1
             /\ Cardinality(Drafted(co)) = 1
  /\ \A a, b \in DOMAIN change_orders :
        (a # b /\ change_orders[a].project_id = change_orders[b].project_id)
        => change_orders[a].order_number # change_orders[b].order_number

\* ------------------------------------------- a signed order and its items
\* The client's sign requests and the contractors' item requests on the
\* sent change order, up to MaxInFlight at a time.
NextSigned ==
  \/ \E target \in DOMAIN change_orders, token \in 0..3 :
        Arrive("sign", None, target, token)
  \/ \E kind \in ItemKinds, who \in Contractors,
        target \in DOMAIN change_orders, item \in 0..2 :
        ArriveContractor(kind, who, target, item)
  \/ \E r \in DOMAIN requests : Verify(r)
  \/ \E r \in DOMAIN requests : SignRead(r)
  \/ \E r \in DOMAIN requests : MarkTokenUsed(r)
  \/ \E r \in DOMAIN requests : SignOrder(r)
  \/ \E r \in DOMAIN requests : RecordSign(r)
  \/ \E r \in DOMAIN requests : SelectLinked(r)
  \/ \E r \in DOMAIN requests : SignChangeEvent(r)
  \/ \E r \in DOMAIN requests : RecordSigned(r)
  \/ \E r \in DOMAIN requests : ItemCheck(r)
  \/ \E r \in DOMAIN requests, cost \in Costs : ItemInsert(r, cost)
  \/ \E r \in DOMAIN requests : ItemFetch(r)
  \/ \E r \in DOMAIN requests, cost \in Costs : ItemUpdate(r, cost)
  \/ \E r \in DOMAIN requests : ItemDelete(r)
  \/ \E r \in DOMAIN requests : TotalsRead(r)
  \/ \E r \in DOMAIN requests : TotalsWrite(r)

SpecSigned == InitSent /\ [][NextSigned]_vars

ItemsOf(items, co) == {i \in items : i.change_order_id = co}

\* C38: a signed change order is immutable: no step changes the line items
\* or the totals of an order whose status is signed, whatever request takes
\* the step, and an item request of the owner that arrived on a signed
\* order is answered 409.
C38_SignedOrderImmutable ==
  [][/\ \A co \in DOMAIN change_orders :
           change_orders[co].status = "signed"
           => /\ ItemsOf(change_order_items', co) = ItemsOf(change_order_items, co)
              /\ change_orders'[co].subtotal = change_orders[co].subtotal
     /\ \A r \in DOMAIN requests' :
           (/\ requests'[r].kind \in ItemKinds
            /\ requests'[r].pc = "ended"
            /\ requests'[r].arrived = "signed"
            /\ requests'[r].who = Owner(change_orders[requests'[r].target].project_id))
           => requests'[r].result = 409]_vars

\* ------------------------------------------- edits next to confirm and reject
\* The owner's and another contractor's edits of the change events together
\* with confirm and reject requests, up to MaxInFlight at a time.
NextEdits ==
  \/ \E kind \in {"confirm", "reject", "update"}, who \in Contractors \cup {None},
        target \in DOMAIN change_events, token \in 0..4 :
        Arrive(kind, who, target, token)
  \/ \E r \in DOMAIN requests : Verify(r)
  \/ \E r \in DOMAIN requests : ReadChangeEvent(r)
  \/ \E r \in DOMAIN requests : MarkTokenUsed(r)
  \/ \E r \in DOMAIN requests : UpdateStatus(r)
  \/ \E r \in DOMAIN requests : RecordTransition(r)
  \/ \E r \in DOMAIN requests : CountOrders(r)
  \/ \E r \in DOMAIN requests : InsertOrder(r)
  \/ \E r \in DOMAIN requests : InsertItem(r)
  \/ \E r \in DOMAIN requests : InsertOrderTransition(r)
  \/ \E r \in DOMAIN requests : EditCheck(r)
  \/ \E r \in DOMAIN requests : EditWrite(r)
  \/ \E r \in DOMAIN requests : EditRecord(r)

SpecEdits == InitDraft /\ [][NextEdits]_vars

\* the step is one of an update request
EditSteps(r) ==
  /\ r \in DOMAIN requests
  /\ requests[r].kind = "update"
  /\ requests'[r] # requests[r]

\* C39: an edit is applied only before confirmation. A step of an update
\* request never changes a status; it changes a field of the event only
\* while the event is proposed or in manual review; the transition it
\* records goes from the event's current status to the same status; and an
\* edit that found the event closed is answered 409 and wrote nothing.
C39_EditsOnlyWhileOpen ==
  [][\A r \in DOMAIN requests :
        EditSteps(r) =>
          LET ce == requests[r].target
          IN /\ \A c \in DOMAIN change_events :
                   change_events'[c].status = change_events[c].status
             /\ change_events' # change_events
                  => StatusOf(change_events, ce) \in {"proposed", "manual_review"}
             /\ Len(state_transitions') > Len(state_transitions)
                  => LET tr == state_transitions'[Len(state_transitions')]
                     IN /\ tr.entity_id = ce
                        /\ tr.from_status = change_events[ce].status
                        /\ tr.to_status = change_events[ce].status
                        /\ change_events[ce].status \in {"proposed", "manual_review"}
             /\ (/\ requests[r].pc = "edit_check"
                 /\ requests[r].who = Owner(change_events[ce].project_id)
                 /\ change_events[ce].status \in Closed)
                  => /\ requests'[r].pc = "ended"
                     /\ requests'[r].result = 409
                     /\ UNCHANGED db]_vars

\* ------------------------------------------- the rate limiter
\* RATE_LIMITED_PATHS: the endings of the paths that are limited
RATE_LIMITED_PATHS == {"/confirm", "/reject", "/sign", "/send", "/connect", "/subscribe"}
MAX_REQUESTS == 10
WINDOW_SECONDS == 60

\* A path is the sequence of its segments, each with its leading slash; it
\* ends with one of the endings when its last segment is that ending.
should_limit(path) ==
  \E p \in RATE_LIMITED_PATHS : path # <<>> /\ path[Len(path)] = p

Clients == {"ip1", "ip2"}
Paths == {<<"/change-events", "/1", "/confirm">>, <<"/change-events", "/1">>}

\* the key of the client and the full path
Key(client_ip, path) == <<client_ip, path>>

\* The sorted set Redis holds under the key at this time: none when the key
\* was never written or has expired.
Stored(key, now) ==
  IF key \in DOMAIN limiter.sets /\ now < limiter.ttl[key]
  THEN limiter.sets[key] ELSE {}

Seen(client_ip, path, time, redis, code) ==
  [client_ip |-> client_ip, path |-> path, time |-> time, redis |-> redis,
   code |-> code]

\* the answer of a request that call_next handed to the endpoint handler
Handled == 0

\* the requests dispatched since the clock reading limiter.now began
MaxArrivals == 3
\* the times the clock moves on between the requests
MaxTicks == 3

\* dispatch: one request of the client on the path while the clock reads
\* limiter.now. A path without a limited ending goes to the handler. With
\* Redis out of reach the request goes to the handler. Otherwise the pipeline
\* removes the scores from 0 to now - WINDOW_SECONDS, counts the rest, adds
\* the request (member and score are the clock reading, so a second request
\* with the same reading adds nothing) and sets the key to expire; the count
\* taken before the addition decides between 429 and the handler.
Dispatch(client_ip, path, reachable) ==
  /\ limiter.since < MaxArrivals
  /\ LET now == limiter.now
         key == Key(client_ip, path)
         window_start == now - WINDOW_SECONDS
         kept == {score \in Stored(key, now) : ~(0 <= score /\ score <= window_start)}
         request_count == Cardinality(kept)
     IN limiter' =
          IF ~should_limit(path) \/ ~reachable
          THEN [limiter EXCEPT
                  !.seen = Append(@, Seen(client_ip, path, now, reachable, Handled)),
                  !.since = @ + 1]
          ELSE [limiter EXCEPT
                  !.sets = (key :> (kept \cup {now})) @@ @,
                  !.ttl = (key :> (now + WINDOW_SECONDS)) @@ @,
                  !.seen = Append(@, Seen(client_ip, path, now, reachable,
                              IF request_count >= MAX_REQUESTS THEN 429 ELSE Handled)),
                  !.since = @ + 1]
  /\ UNCHANGED <<db, tasks, requests, triggered, dedup, resolver, polls, vision, cosine>>

\* time.time() moves on: by a second, or to the end of the window
Steps == {1, WINDOW_SECONDS - MAX_REQUESTS}

Tick(step) ==
  /\ limiter.read < MaxTicks
  /\ limiter' = [limiter EXCEPT !.now = @ + step, !.read = @ + 1]
  /\ UNCHANGED <<db, tasks, requests, triggered, dedup, resolver, polls, vision, cosine>>

\* The state after n requests of client ip1 on the limited path, one in each
\* second from 0 on, each handed to the handler.
History(n) ==
  LET key == Key("ip1", <<"/change-events", "/1", "/confirm">>)
  IN [now |-> n,
      sets |-> IF n = 0 THEN <<>> ELSE (key :> 0..(n - 1)),
      ttl |-> IF n = 0 THEN <<>> ELSE (key :> (n - 1 + WINDOW_SECONDS)),
      seen |-> [i \in 1..n |-> Seen("ip1", <<"/change-events", "/1", "/confirm">>,
                                    i - 1, TRUE, Handled)],
      since |-> 0, read |-> 0]

InitLimiter ==
  /\ ingest_events = <<>>
  /\ change_events = <<>>
  /\ change_event_sources = {}
  /\ state_transitions = <<>>
  /\ notifications = <<>>
  /\ change_orders = <<>>
  /\ change_order_items = {}
  /\ tasks = <<>>
  /\ requests = <<>>
  /\ triggered = <<>>
  /\ dedup = NoCall
  /\ resolver = <<>>
  /\ polls = <<>>
  /\ vision = NoImages
  /\ cosine = NoPair
  /\ limiter \in {History(n) : n \in {0, MAX_REQUESTS - 2, MAX_REQUESTS - 1}}

NextLimiter ==
  \/ \E client_ip \in Clients, path \in Paths, reachable \in BOOLEAN :
        Dispatch(client_ip, path, reachable)
  \/ \E step \in Steps : Tick(step)

SpecLimiter == InitLimiter /\ [][NextLimiter]_vars

\* the requests of the log on the same key as request i that reached the
\* handler in the window of WINDOW_SECONDS that ends with request i
HandledInWindow(i) ==
  {j \in DOMAIN limiter.seen :
      /\ limiter.seen[j].client_ip = limiter.seen[i].client_ip
      /\ limiter.seen[j].path = limiter.seen[i].path
      /\ limiter.seen[j].code = Handled
      /\ limiter.seen[j].time > limiter.seen[i].time - WINDOW_SECONDS
      /\ limiter.seen[j].time <= limiter.seen[i].time}

\* C40: while Redis is reachable, of the requests of one client on one
\* limited path at most MAX_REQUESTS within any window of WINDOW_SECONDS
\* reach the handler, a request that finds MAX_REQUESTS handled before it in
\* its window is answered 429, and a request on another path always reaches
\* the handler.
C40_AtMostMaxPerWindow ==
  /\ \A i \in DOMAIN limiter.seen :
        ~should_limit(limiter.seen[i].path) => limiter.seen[i].code = Handled
  /\ (\A i \in DOMAIN limiter.seen : limiter.seen[i].redis)
     => \A i \in DOMAIN limiter.seen :
           should_limit(limiter.seen[i].path)
           => /\ Cardinality(HandledInWindow(i)) <= MAX_REQUESTS
              /\ Cardinality({j \in HandledInWindow(i) : j < i}) >= MAX_REQUESTS
                   => limiter.seen[i].code = 429

====
